---------------------------- MODULE Spec2Model ----------------------------
(***************************************************************************)
(* A model of the iobuf crate's capability views (ROIobuf, RWIobuf) and of *)
(* the double-buffered IORingbuf built from them (src/src/impls.rs).       *)
(*                                                                         *)
(* impls.rs is a delegation layer: every view method forwards to a method  *)
(* of RawIobuf.  The operators ROIobuf_x / RWIobuf_x / IORingbuf_x model   *)
(* impls.rs line by line.  RawIobuf itself (raw.rs) is not part of the     *)
(* source tree at hand, so the operators Raw_x model it from the written   *)
(* specification (sections 3, 4.1-4.3 and 7) and from the doc tests of     *)
(* impls.rs.                                                               *)
(***************************************************************************)
EXTENDS Integers, Sequences, FiniteSets

VARIABLES
  mem,    \* the shared buffers: buffer id -> sequence of cells
  b,      \* the view under test (its limits and window)
  kind,   \* the capability of b: "RO" (ROIobuf) or "RW" (RWIobuf)
  i_buf,  \* IORingbuf.i_buf
  o_buf,  \* IORingbuf.o_buf
  res,    \* what the last call was and what it returned
  hist    \* history of the run kept for the properties (never read by the code)

vars == <<mem, b, kind, i_buf, o_buf, res, hist>>

---------------------------------------------------------------------------
(* Bounds of the model. *)

\* Largest buffer a view of the navigation model is constructed over.
MaxLen == 2

\* Largest capacity handed to IORingbuf::new in the ring model.
MaxCap == 5

\* Number of primitive writes followed in the codec model.
MaxPokes == 1

\* The byte values callers write.
SampleBytes == {1, 2}

\* The content of a cell of RWIobuf::new's buffer that was never written
\* ("undefined contents"): reading it yields an arbitrary byte.
Undef == -1

---------------------------------------------------------------------------
(* Sequences of cells. *)

Zeros(n) == [i \in 1..n |-> 0]

Undefs(n) == [i \in 1..n |-> Undef]

SeqsOf(S, n) == [1..n -> S]

SeqsUpTo(S, n) == UNION {SeqsOf(S, k) : k \in 0..n}

Reverse(s) == [i \in 1..Len(s) |-> s[Len(s) + 1 - i]]

\* The cells m[from+1 .. from+n] (positions are 0-based byte offsets).
Slice(m, from, n) == [i \in 1..n |-> m[from + i]]

\* m with src stored at offsets from .. from+Len(src)-1.
Store(m, from, src) ==
  [i \in 1..Len(m) |->
     IF i > from /\ i <= from + Len(src) THEN src[i - from] ELSE m[i]]

\* What a read of the cells s yields: an undefined cell reads as junk[i].
ReadAs(s, junk) == [i \in 1..Len(s) |-> IF s[i] = Undef THEN junk[i] ELSE s[i]]

\* The junk a read of n cells of s may see (one choice when all are defined).
JunkFor(s) ==
  IF \E i \in 1..Len(s) : s[i] = Undef THEN SeqsOf(SampleBytes, Len(s))
  ELSE {Zeros(Len(s))}

---------------------------------------------------------------------------
(* RawIobuf: the windowed view.  All positions are byte offsets into the   *)
(* shared buffer v.buf.                                                    *)

\* Construction: limits = window = (0, length).
Raw_new(id, len) ==
  [buf |-> id, lo_min |-> 0, lo |-> 0, hi |-> len, hi_max |-> len]

Raw_len(v) == v.hi - v.lo

Raw_cap(v) == v.hi_max - v.lo_min

Raw_is_empty(v) == v.hi = v.lo

NavOk(v) == [ok |-> TRUE, v |-> v]

NavErr(v) == [ok |-> FALSE, v |-> v]

\* [lo+pos, lo+pos+len) lies within [lo, hi).
Raw_check_range(v, pos, len) == pos + len <= Raw_len(v)

Raw_unsafe_advance(v, len) == [v EXCEPT !.lo = v.lo + len]

Raw_advance(v, len) ==
  IF v.lo + len <= v.hi THEN NavOk(Raw_unsafe_advance(v, len)) ELSE NavErr(v)

Raw_unsafe_extend(v, len) == [v EXCEPT !.hi = v.hi + len]

Raw_extend(v, len) ==
  IF v.hi + len <= v.hi_max THEN NavOk(Raw_unsafe_extend(v, len)) ELSE NavErr(v)

Raw_unsafe_resize(v, len) == [v EXCEPT !.hi = v.lo + len]

Raw_resize(v, len) ==
  IF v.lo + len <= v.hi_max THEN NavOk(Raw_unsafe_resize(v, len)) ELSE NavErr(v)

Raw_unsafe_sub_window(v, pos, len) ==
  [v EXCEPT !.lo = v.lo + pos, !.hi = v.lo + pos + len]

Raw_sub_window(v, pos, len) ==
  IF Raw_check_range(v, pos, len)
  THEN NavOk(Raw_unsafe_sub_window(v, pos, len)) ELSE NavErr(v)

\* _from fixes hi: the window becomes [lo+pos, hi).
Raw_unsafe_sub_window_from(v, pos) == [v EXCEPT !.lo = v.lo + pos]

Raw_sub_window_from(v, pos) ==
  IF pos <= Raw_len(v)
  THEN NavOk(Raw_unsafe_sub_window_from(v, pos)) ELSE NavErr(v)

\* _to fixes lo: the window becomes [lo, lo+len).
Raw_unsafe_sub_window_to(v, len) == [v EXCEPT !.hi = v.lo + len]

Raw_sub_window_to(v, len) ==
  IF len <= Raw_len(v)
  THEN NavOk(Raw_unsafe_sub_window_to(v, len)) ELSE NavErr(v)

Raw_narrow(v) == [v EXCEPT !.lo_min = v.lo, !.hi_max = v.hi]

Raw_unsafe_sub(v, pos, len) == Raw_narrow(Raw_unsafe_sub_window(v, pos, len))

\* sub requires the requested range to lie within the current limits.
Raw_sub(v, pos, len) ==
  IF v.lo + pos + len <= v.hi_max
  THEN NavOk(Raw_unsafe_sub(v, pos, len)) ELSE NavErr(v)

Raw_unsafe_sub_from(v, pos) == Raw_narrow(Raw_unsafe_sub_window_from(v, pos))

Raw_sub_from(v, pos) ==
  IF pos <= Raw_len(v)
  THEN NavOk(Raw_unsafe_sub_from(v, pos)) ELSE NavErr(v)

Raw_unsafe_sub_to(v, len) == Raw_narrow(Raw_unsafe_sub_window_to(v, len))

Raw_sub_to(v, len) ==
  IF v.lo + len <= v.hi_max
  THEN NavOk(Raw_unsafe_sub_to(v, len)) ELSE NavErr(v)

\* Both ranges well formed, the window within the new limits and the new
\* limits within the current ones (limits only ever shrink).
Raw_set_limits_and_window(v, limits, window) ==
  IF /\ limits[1] <= limits[2]
     /\ window[1] <= window[2]
     /\ v.lo_min <= limits[1]
     /\ limits[2] <= v.hi_max
     /\ limits[1] <= window[1]
     /\ window[2] <= limits[2]
  THEN NavOk([v EXCEPT !.lo_min = limits[1], !.hi_max = limits[2],
                       !.lo = window[1], !.hi = window[2]])
  ELSE NavErr(v)

\* window := limits.
Raw_rewind(v) == [v EXCEPT !.lo = v.lo_min, !.hi = v.hi_max]

\* limits := window := (0, true_length).
Raw_reset(v, true_length) ==
  [v EXCEPT !.lo_min = 0, !.lo = 0, !.hi = true_length, !.hi_max = true_length]

\* window := (lo_min, lo): what was filled becomes the window.
Raw_flip_lo(v) == [v EXCEPT !.lo = v.lo_min, !.hi = v.lo]

\* window := (hi, hi_max).
Raw_flip_hi(v) == [v EXCEPT !.lo = v.hi, !.hi = v.hi_max]

---------------------------------------------------------------------------
(* RawIobuf: accessors.  m is the content of the view's shared buffer; a   *)
(* result holds the view, the buffer and the caller's data after the call. *)

\* The cell at 1-based index i; memory outside the buffer is undefined.
Cell(m, i) == IF i \in 1..Len(m) THEN m[i] ELSE Undef

AccOk(v, m, out) == [ok |-> TRUE, v |-> v, m |-> m, out |-> out]

AccErr(v, m, out) == [ok |-> FALSE, v |-> v, m |-> m, out |-> out]

\* Copies Len(dst) bytes at offset pos of the window into dst, unchecked.
Raw_unsafe_peek(v, m, pos, dst, junk) ==
  AccOk(v, m, ReadAs([i \in 1..Len(dst) |-> Cell(m, v.lo + pos + i)], junk))

Raw_peek(v, m, pos, dst, junk) ==
  IF Raw_check_range(v, pos, Len(dst))
  THEN Raw_unsafe_peek(v, m, pos, dst, junk) ELSE AccErr(v, m, dst)

\* Copies src to offset pos of the window, unchecked.
Raw_unsafe_poke(v, m, pos, src) == AccOk(v, Store(m, v.lo + pos, src), <<>>)

Raw_poke(v, m, pos, src) ==
  IF Raw_check_range(v, pos, Len(src))
  THEN Raw_unsafe_poke(v, m, pos, src) ELSE AccErr(v, m, <<>>)

Raw_unsafe_consume(v, m, dst, junk) ==
  [Raw_unsafe_peek(v, m, 0, dst, junk) EXCEPT
     !.v = Raw_unsafe_advance(v, Len(dst))]

Raw_consume(v, m, dst, junk) ==
  IF Raw_check_range(v, 0, Len(dst))
  THEN Raw_unsafe_consume(v, m, dst, junk) ELSE AccErr(v, m, dst)

Raw_unsafe_fill(v, m, src) ==
  [Raw_unsafe_poke(v, m, 0, src) EXCEPT !.v = Raw_unsafe_advance(v, Len(src))]

Raw_fill(v, m, src) ==
  IF Raw_check_range(v, 0, Len(src))
  THEN Raw_unsafe_fill(v, m, src) ELSE AccErr(v, m, <<>>)

\* Copies the window to the lower limit; the window becomes what follows the
\* copied data, up to the upper limit.
Raw_compact(v, m) ==
  [v |-> [v EXCEPT !.lo = v.lo_min + Raw_len(v), !.hi = v.hi_max],
   m |-> Store(m, v.lo_min, Slice(m, v.lo, Raw_len(v)))]

---------------------------------------------------------------------------
(* Prim: the fixed-width integers of the codec.  A value of w bytes is     *)
(* held as its 16-bit limbs, most significant first (one limb below 256    *)
(* for w = 1); a signed value is held as its two's complement.             *)

Widths == {1, 2, 4, 8}

\* Most significant byte first.
ToBE(w, val) ==
  IF w = 1 THEN <<val[1] % 256>>
  ELSE [i \in 1..w |->
          IF i % 2 = 1 THEN val[(i + 1) \div 2] \div 256
          ELSE val[(i + 1) \div 2] % 256]

\* Least significant byte first.
ToLE(w, val) == Reverse(ToBE(w, val))

FromBE(w, bytes) ==
  IF w = 1 THEN <<bytes[1]>>
  ELSE [k \in 1..(w \div 2) |-> bytes[2 * k - 1] * 256 + bytes[2 * k]]

FromLE(w, bytes) == FromBE(w, Reverse(bytes))

\* Err(()) of a Result<T, ()>.
NoValue == <<>>

Raw_unsafe_peek_be(v, m, pos, w, junk) ==
  [Raw_unsafe_peek(v, m, pos, Zeros(w), junk) EXCEPT !.out = FromBE(w, @)]

Raw_peek_be(v, m, pos, w, junk) ==
  IF Raw_check_range(v, pos, w)
  THEN Raw_unsafe_peek_be(v, m, pos, w, junk) ELSE AccErr(v, m, NoValue)

Raw_unsafe_peek_le(v, m, pos, w, junk) ==
  [Raw_unsafe_peek(v, m, pos, Zeros(w), junk) EXCEPT !.out = FromLE(w, @)]

Raw_peek_le(v, m, pos, w, junk) ==
  IF Raw_check_range(v, pos, w)
  THEN Raw_unsafe_peek_le(v, m, pos, w, junk) ELSE AccErr(v, m, NoValue)

Raw_unsafe_poke_be(v, m, pos, w, val) == Raw_unsafe_poke(v, m, pos, ToBE(w, val))

Raw_poke_be(v, m, pos, w, val) ==
  IF Raw_check_range(v, pos, w)
  THEN Raw_unsafe_poke_be(v, m, pos, w, val) ELSE AccErr(v, m, <<>>)

Raw_unsafe_poke_le(v, m, pos, w, val) == Raw_unsafe_poke(v, m, pos, ToLE(w, val))

Raw_poke_le(v, m, pos, w, val) ==
  IF Raw_check_range(v, pos, w)
  THEN Raw_unsafe_poke_le(v, m, pos, w, val) ELSE AccErr(v, m, <<>>)

Raw_unsafe_consume_be(v, m, w, junk) ==
  [Raw_unsafe_peek_be(v, m, 0, w, junk) EXCEPT !.v = Raw_unsafe_advance(v, w)]

Raw_consume_be(v, m, w, junk) ==
  IF Raw_check_range(v, 0, w)
  THEN Raw_unsafe_consume_be(v, m, w, junk) ELSE AccErr(v, m, NoValue)

Raw_unsafe_consume_le(v, m, w, junk) ==
  [Raw_unsafe_peek_le(v, m, 0, w, junk) EXCEPT !.v = Raw_unsafe_advance(v, w)]

Raw_consume_le(v, m, w, junk) ==
  IF Raw_check_range(v, 0, w)
  THEN Raw_unsafe_consume_le(v, m, w, junk) ELSE AccErr(v, m, NoValue)

Raw_unsafe_fill_be(v, m, w, val) ==
  [Raw_unsafe_poke_be(v, m, 0, w, val) EXCEPT !.v = Raw_unsafe_advance(v, w)]

Raw_fill_be(v, m, w, val) ==
  IF Raw_check_range(v, 0, w)
  THEN Raw_unsafe_fill_be(v, m, w, val) ELSE AccErr(v, m, <<>>)

Raw_unsafe_fill_le(v, m, w, val) ==
  [Raw_unsafe_poke_le(v, m, 0, w, val) EXCEPT !.v = Raw_unsafe_advance(v, w)]

Raw_fill_le(v, m, w, val) ==
  IF Raw_check_range(v, 0, w)
  THEN Raw_unsafe_fill_le(v, m, w, val) ELSE AccErr(v, m, <<>>)

---------------------------------------------------------------------------
(* impl Iobuf for ROIobuf: every method forwards to RawIobuf. *)

ROIobuf_sub_window(v, pos, len) == Raw_sub_window(v, pos, len)

ROIobuf_sub_window_from(v, pos) == Raw_sub_window_from(v, pos)

ROIobuf_sub_window_to(v, len) == Raw_sub_window_to(v, len)

ROIobuf_sub(v, pos, len) == Raw_sub(v, pos, len)

ROIobuf_sub_from(v, pos) == Raw_sub_from(v, pos)

ROIobuf_sub_to(v, len) == Raw_sub_to(v, len)

ROIobuf_set_limits_and_window(v, limits, window) == Raw_set_limits_and_window(v, limits, window)

ROIobuf_narrow(v) == Raw_narrow(v)

ROIobuf_advance(v, len) == Raw_advance(v, len)

\* ROIobuf::extend forwarding to the unchecked twin.
ROIobuf_extend_unchecked(v, len) == NavOk(Raw_unsafe_extend(v, len))

ROIobuf_extend(v, len) == Raw_extend(v, len)

ROIobuf_resize(v, len) == Raw_resize(v, len)

ROIobuf_rewind(v) == Raw_rewind(v)

ROIobuf_reset(v, true_length) == Raw_reset(v, true_length)

ROIobuf_flip_lo(v) == Raw_flip_lo(v)

ROIobuf_flip_hi(v) == Raw_flip_hi(v)

ROIobuf_peek(v, m, pos, dst, junk) == Raw_peek(v, m, pos, dst, junk)

ROIobuf_peek_be(v, m, pos, w, junk) == Raw_peek_be(v, m, pos, w, junk)

ROIobuf_peek_le(v, m, pos, w, junk) == Raw_peek_le(v, m, pos, w, junk)

ROIobuf_consume(v, m, dst, junk) == Raw_consume(v, m, dst, junk)

ROIobuf_consume_be(v, m, w, junk) == Raw_consume_be(v, m, w, junk)

ROIobuf_consume_le(v, m, w, junk) == Raw_consume_le(v, m, w, junk)

---------------------------------------------------------------------------
(* impl Iobuf for RWIobuf: every method forwards to RawIobuf. *)

RWIobuf_len(v) == Raw_len(v)

RWIobuf_cap(v) == Raw_cap(v)

RWIobuf_is_empty(v) == Raw_is_empty(v)

RWIobuf_sub_window(v, pos, len) == Raw_sub_window(v, pos, len)

RWIobuf_sub_window_from(v, pos) == Raw_sub_window_from(v, pos)

RWIobuf_sub_window_to(v, len) == Raw_sub_window_to(v, len)

\* RWIobuf::sub forwarding to sub_window.
RWIobuf_sub_as_sub_window(v, pos, len) == Raw_sub_window(v, pos, len)

RWIobuf_sub(v, pos, len) == Raw_sub(v, pos, len)

RWIobuf_sub_from(v, pos) == Raw_sub_from(v, pos)

RWIobuf_sub_to(v, len) == Raw_sub_to(v, len)

\* set_limits_and_window without the test that the new limits lie within
\* the current ones.
RWIobuf_set_limits_and_window_anywhere(v, limits, window) ==
  IF /\ limits[1] <= limits[2]
     /\ window[1] <= window[2]
     /\ limits[1] <= window[1]
     /\ window[2] <= limits[2]
  THEN NavOk([v EXCEPT !.lo_min = limits[1], !.hi_max = limits[2],
                       !.lo = window[1], !.hi = window[2]])
  ELSE NavErr(v)

RWIobuf_set_limits_and_window(v, limits, window) == Raw_set_limits_and_window(v, limits, window)

\* narrow that moves the lower limit alone.
RWIobuf_narrow_lower_only(v) == [v EXCEPT !.lo_min = v.lo]

RWIobuf_narrow(v) == Raw_narrow(v)

RWIobuf_advance(v, len) == Raw_advance(v, len)

RWIobuf_extend(v, len) == Raw_extend(v, len)

\* resize that never makes the window longer.
RWIobuf_resize_within_window(v, len) ==
  IF v.lo + len <= v.hi THEN NavOk([v EXCEPT !.hi = v.lo + len]) ELSE NavErr(v)

RWIobuf_resize(v, len) == Raw_resize(v, len)

RWIobuf_rewind(v) == Raw_rewind(v)

\* RWIobuf::reset forwarding to rewind.
RWIobuf_reset_as_rewind(v, true_length) == Raw_rewind(v)

RWIobuf_reset(v, true_length) == Raw_reset(v, true_length)

\* RWIobuf::flip_lo forwarding to flip_hi.
RWIobuf_flip_lo_as_hi(v) == Raw_flip_hi(v)

RWIobuf_flip_lo(v) == Raw_flip_lo(v)

RWIobuf_flip_hi(v) == Raw_flip_hi(v)

RWIobuf_peek(v, m, pos, dst, junk) == Raw_peek(v, m, pos, dst, junk)

RWIobuf_peek_be(v, m, pos, w, junk) == Raw_peek_be(v, m, pos, w, junk)

RWIobuf_peek_le(v, m, pos, w, junk) == Raw_peek_le(v, m, pos, w, junk)

RWIobuf_consume(v, m, dst, junk) == Raw_consume(v, m, dst, junk)

RWIobuf_consume_be(v, m, w, junk) == Raw_consume_be(v, m, w, junk)

RWIobuf_consume_le(v, m, w, junk) == Raw_consume_le(v, m, w, junk)

---------------------------------------------------------------------------
(* impl RWIobuf: the write accessors, forwarded to RawIobuf. *)

\* compact that moves the window without copying its bytes.
RWIobuf_compact_no_copy(v, m) == [v |-> Raw_compact(v, m).v, m |-> m]

RWIobuf_compact(v, m) == Raw_compact(v, m)

RWIobuf_poke(v, m, pos, src) == Raw_poke(v, m, pos, src)

\* RWIobuf::poke_be forwarding to poke_le.
RWIobuf_poke_be_as_le(v, m, pos, w, val) == Raw_poke_le(v, m, pos, w, val)

RWIobuf_poke_be(v, m, pos, w, val) == Raw_poke_be(v, m, pos, w, val)

\* RWIobuf::poke_le forwarding to poke_be.
RWIobuf_poke_le_as_be(v, m, pos, w, val) == Raw_poke_be(v, m, pos, w, val)

RWIobuf_poke_le(v, m, pos, w, val) == Raw_poke_le(v, m, pos, w, val)

\* fill that writes at the front of the window and leaves the window there.
RWIobuf_fill_no_advance(v, m, src) == Raw_poke(v, m, 0, src)

RWIobuf_fill(v, m, src) == Raw_fill(v, m, src)

\* A fill_be that stores the bytes that fit before it reports the error.
RWIobuf_fill_be_partial(v, m, w, val) ==
  IF Raw_check_range(v, 0, w) THEN Raw_fill_be(v, m, w, val)
  ELSE AccErr(v, Store(m, v.lo, SubSeq(ToBE(w, val), 1, Raw_len(v))), <<>>)

RWIobuf_fill_be(v, m, w, val) == Raw_fill_be(v, m, w, val)

RWIobuf_fill_le(v, m, w, val) == Raw_fill_le(v, m, w, val)

---------------------------------------------------------------------------
(* Constructors (RawIobuf::new / from_vec / from_slice): limits = window = *)
(* the whole buffer.                                                       *)

ROIobuf_from_vec(id, vec) == Raw_new(id, Len(vec))

RWIobuf_new(id, len) == Raw_new(id, len)

RWIobuf_from_vec(id, vec) == Raw_new(id, Len(vec))

\* The value of a view variable that a run does not use.
NoView == Raw_new(0, 0)

---------------------------------------------------------------------------
(* The navigation model: one view b over buffer 1, driven by every checked *)
(* operation of the Iobuf trait and, for a RWIobuf, the write accessors.   *)

Args == 0..(MaxLen + 1)

\* The widths of the primitives the navigation model reads and writes.
NavWidths == {1, 2}

\* The sample values of a primitive of w bytes, as limbs.
NavVals(w) == IF w = 1 THEN {<<1>>, <<2>>} ELSE {<<258>>, <<513>>}

\* The byte slices a caller passes to poke and fill: every slice that can
\* fit a buffer, and one that cannot.
Srcs == SeqsUpTo(SampleBytes, MaxLen) \cup {[i \in 1..(MaxLen + 1) |-> 1]}

M == mem[b.buf]

TrueLength == Len(M)

WindowBytes(v, m) == Slice(m, v.lo, v.hi - v.lo)

FillOps == {"fill", "fill_be", "fill_le"}

PeekOps == {"peek", "peek_be", "peek_le"}

NoHist == [st |-> "none", data |-> <<>>]

\* The history kept for the fill / flip_lo / consume round trip: "filling"
\* while only fills succeeded since the window started at the lower limit
\* (data: the bytes filled, in order), "flipped" once flip_lo followed them,
\* "drained" once a consume of exactly that many bytes followed the flip.
HistNext(op, ok, v2, wrote, n) ==
  IF ~ok \/ op \in PeekOps THEN hist
  ELSE IF op \in FillOps
    THEN IF hist.st \in {"filling", "flipped"}
         THEN [st |-> "filling",
               data |-> (IF hist.st = "filling" THEN hist.data ELSE <<>>) \o wrote]
         ELSE NoHist
  ELSE IF op = "flip_lo" /\ hist.st = "filling"
    THEN [st |-> "flipped", data |-> hist.data]
  ELSE IF op = "consume" /\ hist.st = "flipped" /\ n = Len(hist.data) /\ n > 0
    THEN [st |-> "drained", data |-> hist.data]
  ELSE IF v2.lo = v2.lo_min THEN [st |-> "filling", data |-> <<>>]
  ELSE NoHist

\* The cells a checked read of n bytes at offset pos of v's window touches
\* (none when the request is refused).
ReadCells(v, m, pos, n) ==
  IF pos + n <= v.hi - v.lo THEN [i \in 1..n |-> Cell(m, v.lo + pos + i)]
  ELSE <<>>

\* A request for [pos, pos+len) of the window that ends exactly one byte
\* past hi.
Edge(pos, len) == pos + len = Raw_len(b) + 1

NavAct(op, r, edge) ==
  /\ b' = r.v
  /\ res' = [op |-> op, ok |-> r.ok, edge |-> edge, out |-> <<>>]
  /\ hist' = HistNext(op, r.ok, r.v, <<>>, 0)
  /\ UNCHANGED <<mem, kind, i_buf, o_buf>>

AccAct(op, r, edge, wrote, n) ==
  /\ b' = r.v
  /\ mem' = [mem EXCEPT ![b.buf] = r.m]
  /\ res' = [op |-> op, ok |-> r.ok, edge |-> edge, out |-> r.out]
  /\ hist' = HistNext(op, r.ok, r.v, wrote, n)
  /\ UNCHANGED <<kind, i_buf, o_buf>>

RO == kind = "RO"

SubWindow ==
  \E pos \in Args, len \in Args :
    NavAct("sub_window",
           IF RO THEN ROIobuf_sub_window(b, pos, len)
           ELSE RWIobuf_sub_window(b, pos, len), Edge(pos, len))

SubWindowFrom ==
  \E pos \in Args :
    NavAct("sub_window_from",
           IF RO THEN ROIobuf_sub_window_from(b, pos)
           ELSE RWIobuf_sub_window_from(b, pos), Edge(pos, 0))

SubWindowTo ==
  \E len \in Args :
    NavAct("sub_window_to",
           IF RO THEN ROIobuf_sub_window_to(b, len)
           ELSE RWIobuf_sub_window_to(b, len), Edge(0, len))

Sub ==
  \E pos \in Args, len \in Args :
    NavAct("sub",
           IF RO THEN ROIobuf_sub(b, pos, len) ELSE RWIobuf_sub(b, pos, len),
           FALSE)

SubFrom ==
  \E pos \in Args :
    NavAct("sub_from",
           IF RO THEN ROIobuf_sub_from(b, pos) ELSE RWIobuf_sub_from(b, pos),
           Edge(pos, 0))

SubTo ==
  \E len \in Args :
    NavAct("sub_to",
           IF RO THEN ROIobuf_sub_to(b, len) ELSE RWIobuf_sub_to(b, len),
           FALSE)

SetLimitsAndWindow ==
  \E limits \in Args \X Args, window \in Args \X Args :
    /\ window[1] - limits[1] \in {-1, 0, 1}
    /\ window[2] - limits[2] \in {-1, 0, 1}
    /\ NavAct("set_limits_and_window",
         IF RO THEN ROIobuf_set_limits_and_window(b, limits, window)
         ELSE RWIobuf_set_limits_and_window(b, limits, window), FALSE)

Narrow ==
  NavAct("narrow",
         NavOk(IF RO THEN ROIobuf_narrow(b) ELSE RWIobuf_narrow(b)), FALSE)

Advance ==
  \E len \in Args :
    NavAct("advance",
           IF RO THEN ROIobuf_advance(b, len) ELSE RWIobuf_advance(b, len),
           Edge(0, len))

Extend ==
  \E len \in Args :
    NavAct("extend",
           IF RO THEN ROIobuf_extend(b, len) ELSE RWIobuf_extend(b, len),
           FALSE)

Resize ==
  \E len \in Args :
    NavAct("resize",
           IF RO THEN ROIobuf_resize(b, len) ELSE RWIobuf_resize(b, len),
           FALSE)

Rewind ==
  NavAct("rewind",
         NavOk(IF RO THEN ROIobuf_rewind(b) ELSE RWIobuf_rewind(b)), FALSE)

Reset ==
  NavAct("reset",
         NavOk(IF RO THEN ROIobuf_reset(b, TrueLength)
               ELSE RWIobuf_reset(b, TrueLength)), FALSE)

FlipLo ==
  NavAct("flip_lo",
         NavOk(IF RO THEN ROIobuf_flip_lo(b) ELSE RWIobuf_flip_lo(b)), FALSE)

FlipHi ==
  NavAct("flip_hi",
         NavOk(IF RO THEN ROIobuf_flip_hi(b) ELSE RWIobuf_flip_hi(b)), FALSE)

\* The caller hands a zeroed buffer of n bytes.
Peek ==
  \E pos \in Args, n \in Args :
    \E junk \in JunkFor(ReadCells(b, M, pos, n)) :
      AccAct("peek",
             IF RO THEN ROIobuf_peek(b, M, pos, Zeros(n), junk)
             ELSE RWIobuf_peek(b, M, pos, Zeros(n), junk),
             Edge(pos, n), <<>>, n)

PeekBe ==
  \E pos \in Args, w \in NavWidths :
    \E junk \in JunkFor(ReadCells(b, M, pos, w)) :
      AccAct("peek_be",
             IF RO THEN ROIobuf_peek_be(b, M, pos, w, junk)
             ELSE RWIobuf_peek_be(b, M, pos, w, junk),
             Edge(pos, w), <<>>, w)

PeekLe ==
  \E pos \in Args, w \in NavWidths :
    \E junk \in JunkFor(ReadCells(b, M, pos, w)) :
      AccAct("peek_le",
             IF RO THEN ROIobuf_peek_le(b, M, pos, w, junk)
             ELSE RWIobuf_peek_le(b, M, pos, w, junk),
             Edge(pos, w), <<>>, w)

Consume ==
  \E n \in Args :
    \E junk \in JunkFor(ReadCells(b, M, 0, n)) :
      AccAct("consume",
             IF RO THEN ROIobuf_consume(b, M, Zeros(n), junk)
             ELSE RWIobuf_consume(b, M, Zeros(n), junk),
             Edge(0, n), <<>>, n)

ConsumeBe ==
  \E w \in NavWidths :
    \E junk \in JunkFor(ReadCells(b, M, 0, w)) :
      AccAct("consume_be",
             IF RO THEN ROIobuf_consume_be(b, M, w, junk)
             ELSE RWIobuf_consume_be(b, M, w, junk),
             Edge(0, w), <<>>, w)

ConsumeLe ==
  \E w \in NavWidths :
    \E junk \in JunkFor(ReadCells(b, M, 0, w)) :
      AccAct("consume_le",
             IF RO THEN ROIobuf_consume_le(b, M, w, junk)
             ELSE RWIobuf_consume_le(b, M, w, junk),
             Edge(0, w), <<>>, w)

Compact ==
  /\ ~RO
  /\ LET r == RWIobuf_compact(b, M)
     IN AccAct("compact", AccOk(r.v, r.m, <<>>), FALSE, <<>>, 0)

Poke ==
  /\ ~RO
  /\ \E pos \in Args, src \in Srcs :
       AccAct("poke", RWIobuf_poke(b, M, pos, src), Edge(pos, Len(src)),
              <<>>, Len(src))

PokeBe ==
  /\ ~RO
  /\ \E pos \in Args, w \in NavWidths :
       \E val \in NavVals(w) :
         AccAct("poke_be", RWIobuf_poke_be(b, M, pos, w, val), Edge(pos, w),
                <<>>, w)

PokeLe ==
  /\ ~RO
  /\ \E pos \in Args, w \in NavWidths :
       \E val \in NavVals(w) :
         AccAct("poke_le", RWIobuf_poke_le(b, M, pos, w, val), Edge(pos, w),
                <<>>, w)

Fill ==
  /\ ~RO
  /\ \E src \in Srcs :
       AccAct("fill", RWIobuf_fill(b, M, src), Edge(0, Len(src)), src,
              Len(src))

FillBe ==
  /\ ~RO
  /\ \E w \in NavWidths :
       \E val \in NavVals(w) :
         AccAct("fill_be", RWIobuf_fill_be(b, M, w, val), Edge(0, w),
                ToBE(w, val), w)

FillLe ==
  /\ ~RO
  /\ \E w \in NavWidths :
       \E val \in NavVals(w) :
         AccAct("fill_le", RWIobuf_fill_le(b, M, w, val), Edge(0, w),
                ToLE(w, val), w)

\* A view is constructed over a caller's bytes (from_vec, from_slice).
Init ==
  /\ \E n \in 0..MaxLen :
       \E vec \in SeqsOf(SampleBytes, n) :
         /\ mem = [id \in {1, 2} |-> IF id = 1 THEN vec ELSE <<>>]
         /\ \/ kind = "RO" /\ b = ROIobuf_from_vec(1, vec)
            \/ kind = "RW" /\ b = RWIobuf_from_vec(1, vec)
  /\ i_buf = NoView
  /\ o_buf = NoView
  /\ res = [op |-> "new", ok |-> TRUE, edge |-> FALSE, out |-> <<>>]
  /\ hist = [st |-> "filling", data |-> <<>>]

Next ==
  \/ SubWindow \/ SubWindowFrom \/ SubWindowTo
  \/ Sub \/ SubFrom \/ SubTo
  \/ SetLimitsAndWindow
  \/ Narrow \/ Advance \/ Extend \/ Resize
  \/ Rewind \/ Reset \/ FlipLo \/ FlipHi
  \/ Peek \/ PeekBe \/ PeekLe
  \/ Consume \/ ConsumeBe \/ ConsumeLe
  \/ Compact
  \/ Poke \/ PokeBe \/ PokeLe
  \/ Fill \/ FillBe \/ FillLe

Spec == Init /\ [][Next]_vars

---------------------------------------------------------------------------
(* The codec model: a RWIobuf over a fresh buffer of CodecLen bytes; a     *)
(* primitive of any width is written at any offset, in either byte order,  *)
(* and read back at that offset.                                           *)

\* Length of the buffer of the codec model.
CodecLen == 10

\* The sample values of a primitive of w bytes, as 16-bit limbs:
\* 0x01, 0xFF; 0x0102, 0xFFFE; 0x01020304, 0x80000001;
\* 0x0102030405060708, 0xFFFEFDFCFBFAF9F8.
CodecVals(w) ==
  CASE w = 1 -> {<<1>>, <<255>>}
    [] w = 2 -> {<<258>>, <<65534>>}
    [] w = 4 -> {<<258, 772>>, <<32768, 1>>}
    [] w = 8 -> {<<258, 772, 1286, 1800>>, <<65534, 65020, 64506, 63992>>}

CodecArgs == 0..CodecLen

\* hist of the codec model: the number of writes so far and the last one
\* (byte order, offset, width, value); st is "poked" right after a write
\* that succeeded and "peeked" once the same offset was read back in the
\* same byte order.
CodecAct(op, r, st, be, pos, w, val) ==
  /\ b' = r.v
  /\ mem' = [mem EXCEPT ![b.buf] = r.m]
  /\ res' = [op |-> op, ok |-> r.ok, edge |-> Edge(pos, w), out |-> r.out]
  /\ hist' = [n |-> hist.n + (IF op \in {"poke_be", "poke_le"} THEN 1 ELSE 0),
              st |-> st, be |-> be, pos |-> pos, w |-> w, val |-> val]
  /\ UNCHANGED <<kind, i_buf, o_buf>>

CAdvance ==
  /\ hist.n = 0
  /\ \E len \in 1..2 :
       LET r == RWIobuf_advance(b, len)
       IN /\ b' = r.v
          /\ res' = [op |-> "advance", ok |-> r.ok, edge |-> FALSE, out |-> <<>>]
          /\ UNCHANGED <<mem, kind, i_buf, o_buf, hist>>

CPokeBe ==
  /\ hist.n < MaxPokes
  /\ \E pos \in CodecArgs, w \in Widths :
       \E val \in CodecVals(w) :
         LET r == RWIobuf_poke_be(b, M, pos, w, val)
         IN CodecAct("poke_be", r, IF r.ok THEN "poked" ELSE "idle",
                     TRUE, pos, w, val)

CPokeLe ==
  /\ hist.n < MaxPokes
  /\ \E pos \in CodecArgs, w \in Widths :
       \E val \in CodecVals(w) :
         LET r == RWIobuf_poke_le(b, M, pos, w, val)
         IN CodecAct("poke_le", r, IF r.ok THEN "poked" ELSE "idle",
                     FALSE, pos, w, val)

\* Reads back the primitive last written, at its offset and width.
CPeekBe ==
  /\ hist.st = "poked"
  /\ \E junk \in JunkFor(ReadCells(b, M, hist.pos, hist.w)) :
       CodecAct("peek_be", RWIobuf_peek_be(b, M, hist.pos, hist.w, junk),
                IF hist.be THEN "peeked" ELSE "idle",
                hist.be, hist.pos, hist.w, hist.val)

CPeekLe ==
  /\ hist.st = "poked"
  /\ \E junk \in JunkFor(ReadCells(b, M, hist.pos, hist.w)) :
       CodecAct("peek_le", RWIobuf_peek_le(b, M, hist.pos, hist.w, junk),
                IF hist.be THEN "idle" ELSE "peeked",
                hist.be, hist.pos, hist.w, hist.val)

InitCodec ==
  /\ mem = [id \in {1, 2} |-> IF id = 1 THEN Undefs(CodecLen) ELSE <<>>]
  /\ kind = "RW"
  /\ b = RWIobuf_new(1, CodecLen)
  /\ i_buf = NoView
  /\ o_buf = NoView
  /\ res = [op |-> "new", ok |-> TRUE, edge |-> FALSE, out |-> <<>>]
  /\ hist = [n |-> 0, st |-> "idle", be |-> TRUE, pos |-> 0, w |-> 1,
             val |-> <<0>>]

NextCodec == CAdvance \/ CPokeBe \/ CPokeLe \/ CPeekBe \/ CPeekLe

SpecCodec == InitCodec /\ [][NextCodec]_vars

---------------------------------------------------------------------------
(* IORingbuf.                                                              *)

\* IORingbuf::new giving both halves cap / 2.
IORingbuf_new_even(cap) ==
  LET left_size == cap \div 2
      ret == [i_buf |-> RWIobuf_new(1, left_size),
              o_buf |-> RWIobuf_new(2, left_size)]
  IN [ret EXCEPT !.o_buf = RWIobuf_flip_lo(ret.o_buf)]

\* IORingbuf::new giving the input half a quarter of the capacity.
IORingbuf_new_quarter(cap) ==
  LET left_size == cap \div 4
      ret == [i_buf |-> RWIobuf_new(1, left_size),
              o_buf |-> RWIobuf_new(2, cap - left_size)]
  IN [ret EXCEPT !.o_buf = RWIobuf_flip_lo(ret.o_buf)]

\* IORingbuf::new giving the input half the whole capacity as well.
IORingbuf_new_double(cap) ==
  LET left_size == cap \div 2
      ret == [i_buf |-> RWIobuf_new(1, cap),
              o_buf |-> RWIobuf_new(2, cap - left_size)]
  IN [ret EXCEPT !.o_buf = RWIobuf_flip_lo(ret.o_buf)]

\* IORingbuf::new: the two halves live in buffers 1 and 2.
IORingbuf_new(cap) ==
  LET left_size == cap \div 2
      ret == [i_buf |-> RWIobuf_new(1, left_size),
              o_buf |-> RWIobuf_new(2, cap - left_size)]
  IN [ret EXCEPT !.o_buf = RWIobuf_flip_lo(ret.o_buf)]

IORingbuf_push_buf(ib) == ib

\* pop_buf without the flip_lo of the input view.
IORingbuf_pop_buf_no_flip(ib, ob, m) ==
  IF RWIobuf_is_empty(ob)
  THEN [i_buf |-> RWIobuf_reset(ob, Len(m[ob.buf])), o_buf |-> ib]
  ELSE [i_buf |-> ib, o_buf |-> ob]

\* pop_buf without the reset of the output view.
IORingbuf_pop_buf_no_reset(ib, ob, m) ==
  IF RWIobuf_is_empty(ob)
  THEN [i_buf |-> ob, o_buf |-> RWIobuf_flip_lo(ib)]
  ELSE [i_buf |-> ib, o_buf |-> ob]

\* pop_buf that swaps on every call.
IORingbuf_pop_buf_eager(ib, ob, m) ==
  [i_buf |-> RWIobuf_reset(ob, Len(m[ob.buf])), o_buf |-> RWIobuf_flip_lo(ib)]

\* pop_buf without the swap of the two views.
IORingbuf_pop_buf_no_swap(ib, ob, m) ==
  IF RWIobuf_is_empty(ob)
  THEN [i_buf |-> RWIobuf_flip_lo(ib), o_buf |-> RWIobuf_reset(ob, Len(m[ob.buf]))]
  ELSE [i_buf |-> ib, o_buf |-> ob]

\* pop_buf that leaves the input role on the buffer it hands to the output.
IORingbuf_pop_buf_shared(ib, ob, m) ==
  IF RWIobuf_is_empty(ob)
  THEN [i_buf |-> RWIobuf_reset(ib, Len(m[ib.buf])), o_buf |-> RWIobuf_flip_lo(ib)]
  ELSE [i_buf |-> ib, o_buf |-> ob]

\* pop_buf that hands over the whole input buffer, written or not.
IORingbuf_pop_buf_whole(ib, ob, m) ==
  IF RWIobuf_is_empty(ob)
  THEN [i_buf |-> RWIobuf_reset(ob, Len(m[ob.buf])),
        o_buf |-> RWIobuf_reset(ib, Len(m[ib.buf]))]
  ELSE [i_buf |-> ib, o_buf |-> ob]

\* pop_buf that rewinds the input view where it should flip it.
IORingbuf_pop_buf_rewind(ib, ob, m) ==
  IF RWIobuf_is_empty(ob)
  THEN [i_buf |-> RWIobuf_reset(ob, Len(m[ob.buf])), o_buf |-> RWIobuf_rewind(ib)]
  ELSE [i_buf |-> ib, o_buf |-> ob]

\* The ring after pop_buf; the view returned is its o_buf, as a ROIobuf.
IORingbuf_pop_buf(ib, ob, m) ==
  IF RWIobuf_is_empty(ob)
  THEN [i_buf |-> RWIobuf_reset(ob, Len(m[ob.buf])),
        o_buf |-> RWIobuf_flip_lo(ib)]
  ELSE [i_buf |-> ib, o_buf |-> ob]

\* is_empty that looks at the input view alone.
IORingbuf_is_empty_input_only(ib, ob) == RWIobuf_cap(ib) = RWIobuf_len(ib)

IORingbuf_is_empty(ib, ob) ==
  RWIobuf_cap(ib) = RWIobuf_len(ib) /\ RWIobuf_is_empty(ob)

\* is_full that takes a full input window for a full ring.
IORingbuf_is_full_window(ib) == RWIobuf_cap(ib) = RWIobuf_len(ib)

IORingbuf_is_full(ib) == RWIobuf_is_empty(ib)

---------------------------------------------------------------------------
(* The ring model: a producer fills push_buf(), a consumer consumes from   *)
(* the view pop_buf() returns.  hist keeps, for the properties, the        *)
(* capacity asked of new (cap), the bytes filled into the input half since *)
(* the last swap (pending), the bytes handed to the output half and not    *)
(* yet consumed (unread), whether pop_buf was never called (fresh) and the *)
(* number of bytes offered to fill (offered, counted in the scenario run). *)

RingSrcs == SeqsUpTo(SampleBytes, (MaxCap \div 2) + 2)

\* The state IORingbuf::new(cap) leaves.
RingNew(cap) ==
  LET ring == IORingbuf_new(cap)
  IN [mem |-> [id \in {1, 2} |->
                 IF id = 1 THEN Undefs(ring.i_buf.hi_max)
                 ELSE Undefs(ring.o_buf.hi_max)],
      i_buf |-> ring.i_buf,
      o_buf |-> ring.o_buf,
      res |-> [op |-> "new", ok |-> TRUE, swapped |-> FALSE, out |-> <<>>],
      hist |-> [cap |-> cap, pending |-> <<>>, unread |-> <<>>,
                fresh |-> TRUE, offered |-> 0]]

RingInit(cap) ==
  LET s == RingNew(cap)
  IN /\ mem = s.mem
     /\ i_buf = s.i_buf
     /\ o_buf = s.o_buf
     /\ res = s.res
     /\ hist = s.hist
     /\ b = NoView
     /\ kind = "RW"

\* ring.push_buf().fill(src)
RingFill(src, counted) ==
  LET r == RWIobuf_fill(IORingbuf_push_buf(i_buf), mem[i_buf.buf], src)
  IN /\ i_buf' = r.v
     /\ mem' = [mem EXCEPT ![i_buf.buf] = r.m]
     /\ res' = [op |-> "fill", ok |-> r.ok, swapped |-> FALSE, out |-> <<>>]
     /\ hist' = [hist EXCEPT
                   !.pending = IF r.ok THEN @ \o src ELSE @,
                   !.offered = IF counted THEN @ + Len(src) ELSE @]
     /\ UNCHANGED <<b, kind, o_buf>>

\* ring.pop_buf(); the history swaps when the output window was empty.
RingPop ==
  LET ring == IORingbuf_pop_buf(i_buf, o_buf, mem)
      empty == o_buf.lo = o_buf.hi
  IN /\ i_buf' = ring.i_buf
     /\ o_buf' = ring.o_buf
     /\ res' = [op |-> "pop_buf", ok |-> TRUE, swapped |-> empty, out |-> <<>>]
     /\ hist' = [hist EXCEPT
                   !.pending = IF empty THEN <<>> ELSE @,
                   !.unread = IF empty THEN hist.pending ELSE @,
                   !.fresh = FALSE]
     /\ UNCHANGED <<mem, b, kind>>

\* consume(dst) on the view pop_buf returned: the view is borrowed from the
\* ring, so nothing but consumes come between pop_buf and this call.
RingConsume(n) ==
  /\ res.op \in {"pop_buf", "consume"}
  /\ \E junk \in JunkFor(ReadCells(o_buf, mem[o_buf.buf], 0, n)) :
       LET r == ROIobuf_consume(o_buf, mem[o_buf.buf], Zeros(n), junk)
       IN /\ o_buf' = r.v
          /\ mem' = [mem EXCEPT ![o_buf.buf] = r.m]
          /\ res' = [op |-> "consume", ok |-> r.ok, swapped |-> FALSE,
                     out |-> r.out]
          /\ hist' = [hist EXCEPT
                        !.unread = IF r.ok THEN SubSeq(@, n + 1, Len(@)) ELSE @]
          /\ UNCHANGED <<b, kind, i_buf>>

\* The ring is dropped and a new one constructed.
RNew ==
  \E cap \in 0..MaxCap :
    LET s == RingNew(cap)
    IN /\ mem' = s.mem
       /\ i_buf' = s.i_buf
       /\ o_buf' = s.o_buf
       /\ res' = s.res
       /\ hist' = s.hist
       /\ UNCHANGED <<b, kind>>

RFill == \E src \in RingSrcs : RingFill(src, FALSE)

RPop == RingPop

RConsume == \E n \in 0..((MaxCap \div 2) + 2) : RingConsume(n)

InitRing == \E cap \in 0..MaxCap : RingInit(cap)

NextRing == RNew \/ RFill \/ RPop \/ RConsume

SpecRing == InitRing /\ [][NextRing]_vars

---------------------------------------------------------------------------
(* The scenario run: a ring of capacity 10 to which at most MaxOffered     *)
(* bytes are offered.                                                      *)

\* Bytes offered to fill in the scenario run.
MaxOffered == 6

SFill ==
  \E src \in SeqsUpTo(SampleBytes, MaxOffered) :
    /\ Len(src) >= 1
    /\ hist.offered + Len(src) <= MaxOffered
    /\ RingFill(src, TRUE)

SPop == RingPop

SConsume == \E n \in 0..MaxOffered : RingConsume(n)

InitRing10 == RingInit(10)

NextRing10 == SFill \/ SPop \/ SConsume

SpecRing10 == InitRing10 /\ [][NextRing10]_vars

---------------------------------------------------------------------------
(* Properties.                                                             *)

AccessorOps ==
  {"peek", "peek_be", "peek_le", "poke", "poke_be", "poke_le",
   "consume", "consume_be", "consume_le", "fill", "fill_be", "fill_le"}

C2_AllOrNothing ==
  [][/\ ~res'.ok =>
          /\ mem' = mem
          /\ b' = b
          /\ res'.out = IF res'.op \in {"peek", "consume"}
                        THEN Zeros(Len(res'.out)) ELSE <<>>
     /\ (res'.op \in AccessorOps /\ res'.edge) => ~res'.ok]_vars

\* A two-byte fill_be into a window of one byte was just refused.
C2_Witness ==
  /\ res.op = "fill_be"
  /\ res.edge
  /\ ~res.ok
  /\ b.hi - b.lo = 1

\* C9: when only fills succeeded since the window started at the lower
\* limit, flip_lo makes the window exactly the bytes filled, in order; a
\* consume of that many bytes then succeeds and returns those bytes.
C9_FillFlipConsume ==
  /\ hist.st = "flipped" => WindowBytes(b, mem[b.buf]) = hist.data
  /\ (hist.st = "flipped" /\ res.op = "consume" /\ ~res.ok)
       => Len(res.out) # Len(hist.data)
  /\ (hist.st = "drained" /\ res.op = "consume" /\ res.ok)
       => res.out = hist.data

\* Two different bytes were filled, flipped and consumed.
C9_Witness ==
  /\ hist.st = "drained"
  /\ res.op = "consume"
  /\ res.ok
  /\ Len(hist.data) = 2
  /\ hist.data[1] # hist.data[2]
  /\ res.out = hist.data

\* C10: for every width and both byte orders, a poke_be (poke_le) at an
\* offset pos with pos + sizeof(T) <= window length succeeds, and the
\* peek_be (peek_le) of that offset that follows returns Ok of the value
\* written.
C10_PokePeekRoundTrip ==
  /\ (res.op \in {"poke_be", "poke_le"} /\ hist.pos + hist.w <= b.hi - b.lo)
       => (res.ok /\ hist.st = "poked")
  /\ hist.st = "peeked" => (res.ok /\ res.out = hist.val)

\* A 64-bit value was written little-endian at offset 1 of an advanced
\* window and read back.
C10_Witness ==
  /\ hist.st = "peeked"
  /\ ~hist.be
  /\ hist.w = 8
  /\ hist.pos = 1
  /\ b.lo > 0
  /\ res.out = <<258, 772, 1286, 1800>>

RingIsEmpty == IORingbuf_is_empty(i_buf, o_buf)

RingIsFull == IORingbuf_is_full(i_buf)

FullWindow(v, m) ==
  /\ v.lo_min = 0
  /\ v.lo = 0
  /\ v.hi = Len(m[v.buf])
  /\ v.hi_max = Len(m[v.buf])

\* C3: a pop_buf called while the output window is empty flips the input
\* view (flip_lo) and swaps the roles: the view returned has as its window
\* exactly the bytes filled into push_buf() since the last swap, in fill
\* order, and the new input view has a full window over the other buffer.
C3_PopSwapsWhenOutputEmpty ==
  [][(res'.op = "pop_buf" /\ o_buf.lo = o_buf.hi) =>
       /\ o_buf'.buf = i_buf.buf
       /\ i_buf'.buf = o_buf.buf
       /\ o_buf'.lo = i_buf.lo_min
       /\ o_buf'.hi = i_buf.lo
       /\ WindowBytes(o_buf', mem'[o_buf'.buf]) = hist.pending
       /\ FullWindow(i_buf', mem')
       /\ mem' = mem]_vars

\* The second swap of a ring handed the three bytes 1, 2, 1 to the consumer.
C3_Witness ==
  /\ res.op = "pop_buf"
  /\ res.swapped
  /\ hist.unread = <<1, 2, 1>>
  /\ WindowBytes(o_buf, mem[o_buf.buf]) = <<1, 2, 1>>
  /\ i_buf.buf = 1

\* C4: a pop_buf called while the output window is not empty leaves both
\* views and both buffers as they were; the roles are exchanged by no other
\* call than a pop_buf that finds the output window empty.
C4_PopIsLazy ==
  [][/\ (res'.op = "pop_buf" /\ o_buf.lo # o_buf.hi) =>
          (i_buf' = i_buf /\ o_buf' = o_buf /\ mem' = mem)
     /\ (res'.op # "new" /\ (i_buf'.buf # i_buf.buf \/ o_buf'.buf # o_buf.buf)) =>
          (res'.op = "pop_buf" /\ o_buf.lo = o_buf.hi)]_vars

\* pop_buf was called with unread output and with bytes pending in the input.
C4_Witness ==
  /\ res.op = "pop_buf"
  /\ ~res.swapped
  /\ Len(hist.unread) > 0
  /\ Len(hist.pending) > 0
  /\ o_buf.lo > 0

\* C5: is_empty() is true exactly when there is no data to pop, that is when
\* the input window spans its full limits and the output window is empty.
C5_IsEmptyIffNoData ==
  /\ RingIsEmpty <=> (hist.pending = <<>> /\ hist.unread = <<>>)
  /\ RingIsEmpty <=> /\ i_buf.lo = i_buf.lo_min
                     /\ i_buf.hi = i_buf.hi_max
                     /\ o_buf.lo = o_buf.hi

\* A ring that was filled, swapped and drained reports empty again.
C5_Witness ==
  /\ RingIsEmpty
  /\ ~hist.fresh
  /\ res.op = "consume"
  /\ res.ok
  /\ Len(res.out) = 2

\* C6: is_full() is true exactly when the input window is empty, that is
\* exactly when every fill of one or more bytes into push_buf() is refused.
C6_IsFullIffInputWindowEmpty ==
  /\ RingIsFull <=> i_buf.hi - i_buf.lo = 0
  /\ RingIsFull <=>
       \A src \in RingSrcs :
         Len(src) >= 1 =>
           ~RWIobuf_fill(IORingbuf_push_buf(i_buf), mem[i_buf.buf], src).ok
  /\ RingIsFull <=>
       ~RWIobuf_fill(IORingbuf_push_buf(i_buf), mem[i_buf.buf], <<1>>).ok

\* A fill was just refused by a full input half while output is unread.
C6_Witness ==
  /\ RingIsFull
  /\ res.op = "fill"
  /\ ~res.ok
  /\ Len(hist.pending) = 2
  /\ Len(hist.unread) > 0

\* C7: IORingbuf::new(cap) leaves an input view of capacity cap / 2 (rounded
\* down) with a full window and an output view of capacity cap - cap / 2
\* with an empty window, and the ring reports is_empty().
C7_NewSplitsCapacity ==
  res.op = "new" =>
    /\ Raw_cap(i_buf) = hist.cap \div 2
    /\ Raw_len(i_buf) = hist.cap \div 2
    /\ Raw_cap(o_buf) = hist.cap - (hist.cap \div 2)
    /\ Raw_len(o_buf) = 0
    /\ RingIsEmpty

\* A ring of odd capacity was just constructed.
C7_Witness ==
  /\ res.op = "new"
  /\ hist.cap = 5
  /\ Raw_cap(i_buf) = 2
  /\ Raw_cap(o_buf) = 3

\* C8 as written: on a ring of capacity 10 six bytes can be filled into
\* push_buf(), and the pop_buf() that follows yields those six bytes with
\* is_full() and is_empty() both false.
C8_SixBytesFill ==
  /\ (hist.fresh /\ hist.offered <= 6) => Len(hist.pending) = hist.offered
  /\ (res.op = "pop_buf" /\ res.swapped /\ hist.offered = 6) =>
       /\ Len(hist.unread) = 6
       /\ WindowBytes(o_buf, mem[o_buf.buf]) = hist.unread
       /\ ~RingIsFull
       /\ ~RingIsEmpty

\* C8, amended: on a ring of capacity 10 five bytes (the input half) can be
\* filled into push_buf() and no more before a pop; the pop_buf() that
\* follows five filled bytes swaps and yields a view over those five bytes
\* in order, with is_full() and is_empty() both false.
C8_FiveBytesFill ==
  /\ (hist.fresh /\ hist.offered <= 5) => Len(hist.pending) = hist.offered
  /\ hist.fresh => Len(hist.pending) <= 5
  /\ (res.op = "pop_buf" /\ res.swapped /\ Len(hist.unread) = 5) =>
       /\ WindowBytes(o_buf, mem[o_buf.buf]) = hist.unread
       /\ ~RingIsFull
       /\ ~RingIsEmpty

\* Six bytes were offered, five were taken, and pop_buf handed them over.
C8_Witness ==
  /\ hist.cap = 10
  /\ hist.offered = 6
  /\ res.op = "pop_buf"
  /\ res.swapped
  /\ hist.unread = <<1, 2, 1, 2, 1>>
  /\ ~RingIsFull
  /\ ~RingIsEmpty

---------------------------------------------------------------------------
(* The poke model: the doc examples of poke_be and poke_le, a view over a  *)
(* new buffer of PokeLen bytes written with overlapping primitives and     *)
(* then resized.  res holds the arguments of the last call; hist.scen      *)
(* counts the steps of the example done so far, in order and with nothing  *)
(* else written in between (-1 once the sequence left the example).        *)

PokeLen == 10

ResizeLen == 7

MaxScenarioPokes == 3

\* 0x0304u16 at 0, 0x0505u16 at 1, 0x06070809u32 at 3.
ScenarioPokes ==
  <<[pos |-> 0, w |-> 2, val |-> <<772>>],
    [pos |-> 1, w |-> 2, val |-> <<1285>>],
    [pos |-> 3, w |-> 4, val |-> <<1543, 2057>>]>>

PokePositions == {0, 1, 3, PokeLen - 1}

PokeWrites ==
  {[pos |-> p, w |-> ScenarioPokes[k].w, val |-> ScenarioPokes[k].val] :
     p \in PokePositions, k \in 1..3}

ScenNext(be, a, ok) ==
  IF ~ok THEN [scen |-> hist.scen, be |-> hist.be]
  ELSE IF /\ hist.scen \in 0..2
          /\ a = ScenarioPokes[hist.scen + 1]
          /\ (hist.scen = 0 \/ be = hist.be)
       THEN [scen |-> hist.scen + 1, be |-> be]
       ELSE [scen |-> -1, be |-> be]

PokeAct(op, be, a, r) ==
  /\ b' = r.v
  /\ mem' = [mem EXCEPT ![b.buf] = r.m]
  /\ res' = [op |-> op, ok |-> r.ok, pos |-> a.pos, w |-> a.w, val |-> a.val]
  /\ hist' = LET s == ScenNext(be, a, r.ok)
             IN [n |-> hist.n + 1, scen |-> s.scen, be |-> s.be]
  /\ UNCHANGED <<kind, i_buf, o_buf>>

PPokeBe ==
  /\ hist.n < MaxScenarioPokes
  /\ \E a \in PokeWrites :
       PokeAct("poke_be", TRUE, a, RWIobuf_poke_be(b, M, a.pos, a.w, a.val))

PPokeLe ==
  /\ hist.n < MaxScenarioPokes
  /\ \E a \in PokeWrites :
       PokeAct("poke_le", FALSE, a, RWIobuf_poke_le(b, M, a.pos, a.w, a.val))

PResize ==
  /\ res.op # "resize"
  /\ \E len \in {ResizeLen, PokeLen + 1} :
       LET r == RWIobuf_resize(b, len)
       IN /\ b' = r.v
          /\ res' = [op |-> "resize", ok |-> r.ok, pos |-> 0, w |-> len,
                     val |-> <<>>]
          /\ hist' = [hist EXCEPT
                        !.scen = IF ~r.ok THEN @
                                 ELSE IF @ = 3 /\ len = ResizeLen THEN 4
                                 ELSE -1]
          /\ UNCHANGED <<mem, kind, i_buf, o_buf>>

InitPoke ==
  /\ mem = [id \in {1, 2} |-> IF id = 1 THEN Undefs(PokeLen) ELSE <<>>]
  /\ kind = "RW"
  /\ b = RWIobuf_new(1, PokeLen)
  /\ i_buf = NoView
  /\ o_buf = NoView
  /\ res = [op |-> "new", ok |-> TRUE, pos |-> 0, w |-> 0, val |-> <<>>]
  /\ hist = [n |-> 0, scen |-> 0, be |-> TRUE]

NextPoke == PPokeBe \/ PPokeLe \/ PResize

SpecPoke == InitPoke /\ [][NextPoke]_vars

\* C11: a successful poke_be (poke_le) of a w-byte value at pos leaves at
\* window offsets pos .. pos+w-1 the bytes of the value, most (least)
\* significant first, changes no other byte and does not move the window;
\* the three overlapping pokes of the doc example followed by resize(7)
\* leave the window 3,5,5,6,7,8,9 (4,5,5,9,8,7,6 with poke_le).
C11_PokeStoresBytesInOrder ==
  [][/\ (res'.op \in {"poke_be", "poke_le"} /\ res'.ok) =>
          LET at == b.lo + res'.pos
              bytes == Slice(mem'[b.buf], at, res'.w)
              msb == IF res'.op = "poke_be" THEN bytes ELSE Reverse(bytes)
          IN /\ b' = b
             /\ \A i \in 1..res'.w : msb[i] \in 0..255
             /\ \A k \in 1..(res'.w \div 2) :
                  msb[2 * k - 1] * 256 + msb[2 * k] = res'.val[k]
             /\ \A i \in 1..Len(mem[b.buf]) :
                  (i <= at \/ i > at + res'.w) =>
                    mem'[b.buf][i] = mem[b.buf][i]
             /\ mem'[2] = mem[2]
     /\ hist'.scen = 4 =>
          WindowBytes(b', mem'[b'.buf]) =
            IF hist'.be THEN <<3, 5, 5, 6, 7, 8, 9>>
            ELSE <<4, 5, 5, 9, 8, 7, 6>>]_vars

\* The little-endian example ran to its end.
C11_Witness ==
  /\ hist.scen = 4
  /\ ~hist.be
  /\ res.op = "resize"
  /\ res.ok
  /\ b.hi - b.lo = 7
  /\ mem[1][4] = 9

---------------------------------------------------------------------------
(* Clone, read_only and deep_clone.                                        *)

\* RawIobuf::clone: the same shared buffer, the limits and window copied.
Raw_clone(v) == v

\* RawIobuf::deep_clone: a new buffer id holding the bytes of the window,
\* with limits = window = (0, length of the window).
Raw_deep_clone(v, m, id) ==
  [v |-> Raw_new(id, Raw_len(v)), m |-> Slice(m, v.lo, Raw_len(v))]

ROIobuf_clone(v) == Raw_clone(v)

RWIobuf_clone(v) == Raw_clone(v)

\* read_only that hands out a rewound copy.
RWIobuf_read_only_rewound(v) == Raw_rewind(Raw_clone(v))

RWIobuf_read_only(v) == Raw_clone(v)

ROIobuf_deep_clone(v, m, id) == Raw_deep_clone(v, m, id)

\* deep_clone that copies the span of the limits.
RWIobuf_deep_clone_limits(v, m, id) ==
  [v |-> Raw_new(id, Raw_cap(v)), m |-> Slice(m, v.lo_min, Raw_cap(v))]

RWIobuf_deep_clone(v, m, id) == Raw_deep_clone(v, m, id)

---------------------------------------------------------------------------
(* The clone model.  b holds three views: a, the original; c, its clone or *)
(* its read_only() copy; d, a deep clone (NoView until made).  a and c     *)
(* share buffer 1, d owns buffer 2 and is only read and written in place.  *)
(* res holds the last call, the view it went through and, for an           *)
(* accessor, the buffer cell it touched; hist the last successful one-byte *)
(* write.                                                                  *)

CloneLen == 2

ViewNames == {"a", "c", "d"}

Present(x) == b[x].buf # 0

IsRO(x) == kind[x] = "RO"

NoWrite == [wbuf |-> 0, wpos |-> 0, wbyte |-> 0, wvia |-> "none"]

CloneRes(op, x, ok, out, at) ==
  [op |-> op, via |-> x, ok |-> ok, out |-> out, at |-> at]

VClone ==
  /\ b' = [b EXCEPT !.c = IF IsRO("a") THEN ROIobuf_clone(b.a)
                          ELSE RWIobuf_clone(b.a)]
  /\ kind' = [kind EXCEPT !.c = kind.a]
  /\ res' = CloneRes("clone", "a", TRUE, <<>>, 0)
  /\ UNCHANGED <<mem, i_buf, o_buf, hist>>

VReadOnly ==
  /\ ~IsRO("a")
  /\ b' = [b EXCEPT !.c = RWIobuf_read_only(b.a)]
  /\ kind' = [kind EXCEPT !.c = "RO"]
  /\ res' = CloneRes("read_only", "a", TRUE, <<>>, 0)
  /\ UNCHANGED <<mem, i_buf, o_buf, hist>>

VDeepClone ==
  \E x \in {"a", "c"} :
    /\ Present(x)
    /\ LET r == IF IsRO(x) THEN ROIobuf_deep_clone(b[x], mem[b[x].buf], 2)
                ELSE RWIobuf_deep_clone(b[x], mem[b[x].buf], 2)
       IN /\ b' = [b EXCEPT !.d = r.v]
          /\ mem' = [mem EXCEPT ![2] = r.m]
    /\ kind' = [kind EXCEPT !.d = "RW"]
    /\ res' = CloneRes("deep_clone", x, TRUE, <<>>, 0)
    /\ hist' = IF hist.wbuf = 2 THEN NoWrite ELSE hist
    /\ UNCHANGED <<i_buf, o_buf>>

VAdvance ==
  \E x \in {"a", "c"}, len \in {1} :
    /\ Present(x)
    /\ LET r == IF IsRO(x) THEN ROIobuf_advance(b[x], len)
                ELSE RWIobuf_advance(b[x], len)
       IN /\ b' = [b EXCEPT ![x] = r.v]
          /\ res' = CloneRes("advance", x, r.ok, <<>>, 0)
    /\ UNCHANGED <<mem, kind, i_buf, o_buf, hist>>

VWrite(op, x, r, at, byte) ==
  /\ b' = [b EXCEPT ![x] = r.v]
  /\ mem' = [mem EXCEPT ![b[x].buf] = r.m]
  /\ res' = CloneRes(op, x, r.ok, <<>>, IF r.ok THEN at ELSE 0)
  /\ hist' = IF r.ok
             THEN [wbuf |-> b[x].buf, wpos |-> at, wbyte |-> byte, wvia |-> x]
             ELSE hist
  /\ UNCHANGED <<kind, i_buf, o_buf>>

VPoke ==
  \E x \in ViewNames, pos \in 0..(CloneLen - 1), byte \in SampleBytes :
    /\ Present(x)
    /\ ~IsRO(x)
    /\ VWrite("poke", x, RWIobuf_poke(b[x], mem[b[x].buf], pos, <<byte>>),
              b[x].lo + pos + 1, byte)

VFill ==
  \E x \in {"a", "c"}, byte \in SampleBytes :
    /\ Present(x)
    /\ ~IsRO(x)
    /\ VWrite("fill", x, RWIobuf_fill(b[x], mem[b[x].buf], <<byte>>),
              b[x].lo + 1, byte)

VPeek ==
  \E x \in ViewNames, pos \in 0..(CloneLen - 1) :
    /\ Present(x)
    /\ \E junk \in JunkFor(ReadCells(b[x], mem[b[x].buf], pos, 1)) :
         LET r == IF IsRO(x)
                  THEN ROIobuf_peek(b[x], mem[b[x].buf], pos, <<0>>, junk)
                  ELSE RWIobuf_peek(b[x], mem[b[x].buf], pos, <<0>>, junk)
         IN /\ b' = [b EXCEPT ![x] = r.v]
            /\ res' = CloneRes("peek", x, r.ok, IF r.ok THEN r.out ELSE <<>>,
                               IF r.ok THEN b[x].lo + pos + 1 ELSE 0)
    /\ UNCHANGED <<mem, kind, i_buf, o_buf, hist>>

InitClone ==
  /\ \E vec \in SeqsOf(SampleBytes, CloneLen) :
       /\ mem = [id \in {1, 2} |-> IF id = 1 THEN vec ELSE <<>>]
       /\ \/ /\ kind = [x \in ViewNames |-> "RO"]
             /\ b = [x \in ViewNames |->
                       IF x = "a" THEN ROIobuf_from_vec(1, vec) ELSE NoView]
          \/ /\ kind = [x \in ViewNames |-> "RW"]
             /\ b = [x \in ViewNames |->
                       IF x = "a" THEN RWIobuf_from_vec(1, vec) ELSE NoView]
  /\ i_buf = NoView
  /\ o_buf = NoView
  /\ res = CloneRes("new", "a", TRUE, <<>>, 0)
  /\ hist = NoWrite

NextClone ==
  \/ VClone \/ VReadOnly \/ VDeepClone
  \/ VAdvance \/ VPoke \/ VFill \/ VPeek

SpecClone == InitClone /\ [][NextClone]_vars

\* C13: clone() and read_only() hand out a view of the same buffer with the
\* limits and window of the source; a navigation call on one view leaves the
\* limits and window of every other view as they were; a byte written
\* through one view is what a later peek of that buffer position returns
\* through any other view of the same buffer.
C13_ClonesShareBytesNotWindows ==
  [][/\ res'.op = "clone" => (b'.c = b.a /\ mem' = mem)
     /\ res'.op = "read_only" => (b'.c = b.a /\ mem' = mem)
     /\ res'.op \in {"clone", "read_only"} =>
          \A y \in {"a", "d"} : b'[y] = b[y]
     /\ res'.op = "advance" =>
          \A y \in ViewNames \ {res'.via} : b'[y] = b[y]
     /\ (/\ res'.op = "peek"
         /\ res'.ok
         /\ b[res'.via].buf = hist.wbuf
         /\ res'.at = hist.wpos
         /\ res'.via # hist.wvia) => res'.out = <<hist.wbyte>>]_vars

\* A byte that differs from the one the vector held was written through the
\* original and read back through its read-only copy, the two windows of
\* the shared buffer being at different places.
C13_Witness ==
  /\ res.op = "peek"
  /\ res.via = "c"
  /\ kind.c = "RO"
  /\ res.ok
  /\ hist.wvia = "a"
  /\ res.at = hist.wpos
  /\ res.out = <<hist.wbyte>>
  /\ b.a.lo = 1
  /\ b.c.lo = 0

\* C14: deep_clone() of a view returns a view with limits = window =
\* (0, length of the source's window) over a new buffer holding exactly the
\* bytes of the source's window, and leaves the source and its buffer as
\* they were; afterwards a write through a view of one buffer changes no
\* byte of the other buffer, and a peek returns the byte of the buffer of
\* the view it is made through.
C14_DeepCloneBreaksSharing ==
  [][/\ res'.op = "deep_clone" =>
          LET src == b[res'.via]
          IN /\ b'.d = Raw_new(2, src.hi - src.lo)
             /\ mem'[2] = WindowBytes(src, mem[src.buf])
             /\ mem'[1] = mem[1]
             /\ \A y \in {"a", "c"} : b'[y] = b[y]
     /\ res'.op \in {"poke", "fill"} =>
          mem'[3 - b[res'.via].buf] = mem[3 - b[res'.via].buf]
     /\ (res'.op = "peek" /\ res'.ok) =>
          res'.out = <<mem[b[res'.via].buf][res'.at]>>]_vars

\* The deep clone of an advanced window still reads the byte it copied after
\* both bytes of the original buffer were overwritten.
C14_Witness ==
  /\ res.op = "peek"
  /\ res.via = "d"
  /\ res.ok
  /\ res.out = <<2>>
  /\ mem[2] = <<2>>
  /\ mem[1][1] = 1
  /\ mem[1][2] = 1
  /\ b.d = Raw_new(2, 1)

---------------------------------------------------------------------------
(* The compact model: the doc example of compact, a read-write view over   *)
(* the four bytes 0x02, 0x11, 0x22, 0x33 that is consumed, narrowed,       *)
(* rewound, flipped and compacted.                                         *)

\* RWIobuf::from_slice: limits and window span the slice.
RWIobuf_from_slice(id, s) == Raw_new(id, Len(s))

CompactBytes == <<2, 17, 34, 51>>

InitCompact ==
  /\ mem = [id \in {1, 2} |-> IF id = 1 THEN CompactBytes ELSE <<>>]
  /\ kind = "RW"
  /\ b = RWIobuf_from_slice(1, CompactBytes)
  /\ i_buf = NoView
  /\ o_buf = NoView
  /\ res = [op |-> "new", ok |-> TRUE, edge |-> FALSE, out |-> <<>>]
  /\ hist = [st |-> "filling", data |-> <<>>]

NextCompact ==
  \/ Consume \/ ConsumeBe \/ Compact
  \/ Narrow \/ Rewind \/ FlipLo

SpecCompact == InitCompact /\ [][NextCompact]_vars

\* C15: compact() copies the bytes of the window, in order, to the positions
\* starting at the lower limit, changes no other byte, sets the window to
\* run from the end of the copied data to the upper limit and leaves the
\* limits, and so cap(), as they were; on the view over 0x02,0x11,0x22,0x33
\* with three bytes consumed it leaves len() = 3 and cap() = 4.
C15_CompactMovesWindowToLowerLimit ==
  [][res'.op = "compact" =>
       LET n == b.hi - b.lo
       IN /\ Slice(mem'[b.buf], b.lo_min, n) = Slice(mem[b.buf], b.lo, n)
          /\ \A i \in 1..Len(mem[b.buf]) :
               (i <= b.lo_min \/ i > b.lo_min + n) =>
                 mem'[b.buf][i] = mem[b.buf][i]
          /\ b'.lo = b.lo_min + n
          /\ b'.hi = b.hi_max
          /\ b'.lo_min = b.lo_min
          /\ b'.hi_max = b.hi_max
          /\ b'.hi_max - b'.lo_min = b.hi_max - b.lo_min
          /\ (b = [Raw_new(1, 4) EXCEPT !.lo = 3] /\ mem[1] = CompactBytes) =>
               /\ b'.hi - b'.lo = 3
               /\ b'.hi_max - b'.lo_min = 4
               /\ mem'[1] = <<51, 17, 34, 51>>]_vars

\* The state the doc example ends in.
C15_Witness ==
  /\ res.op = "compact"
  /\ b = [Raw_new(1, 4) EXCEPT !.lo = 1]
  /\ mem[1] = <<51, 17, 34, 51>>

---------------------------------------------------------------------------
(* The navigation model: one view, read-only or read-write, over a buffer  *)
(* of MaxLen bytes, moved by the navigation methods.  res holds the last   *)
(* call and its arguments; hist the call before it, whether that call      *)
(* succeeded, and whether the limits were narrower than the buffer before  *)
(* the last call (narrow) and before the call before it (narrow2).         *)

NStep(op, r, pos, len) ==
  /\ b' = r.v
  /\ res' = [op |-> op, ok |-> r.ok, pos |-> pos, len |-> len]
  /\ hist' = [prev |-> res.op, ok |-> res.ok,
              narrow |-> (b.lo_min > 0 \/ b.hi_max < TrueLength),
              narrow2 |-> hist.narrow]
  /\ UNCHANGED <<mem, kind, i_buf, o_buf>>

NSub ==
  \E pos \in Args, len \in Args :
    NStep("sub",
          IF RO THEN ROIobuf_sub(b, pos, len) ELSE RWIobuf_sub(b, pos, len),
          pos, len)

NSubWindow ==
  \E pos \in Args, len \in Args :
    NStep("sub_window",
          IF RO THEN ROIobuf_sub_window(b, pos, len)
          ELSE RWIobuf_sub_window(b, pos, len),
          pos, len)

NAdvance ==
  \E len \in Args :
    NStep("advance",
          IF RO THEN ROIobuf_advance(b, len) ELSE RWIobuf_advance(b, len),
          0, len)

NNarrow ==
  NStep("narrow", NavOk(IF RO THEN ROIobuf_narrow(b) ELSE RWIobuf_narrow(b)),
        0, 0)

NRewind ==
  NStep("rewind", NavOk(IF RO THEN ROIobuf_rewind(b) ELSE RWIobuf_rewind(b)),
        0, 0)

NReset ==
  NStep("reset",
        NavOk(IF RO THEN ROIobuf_reset(b, TrueLength)
              ELSE RWIobuf_reset(b, TrueLength)),
        0, 0)

NFlipLo ==
  NStep("flip_lo",
        NavOk(IF RO THEN ROIobuf_flip_lo(b) ELSE RWIobuf_flip_lo(b)), 0, 0)

NFlipHi ==
  NStep("flip_hi",
        NavOk(IF RO THEN ROIobuf_flip_hi(b) ELSE RWIobuf_flip_hi(b)), 0, 0)

InitNav ==
  /\ \E vec \in {[i \in 1..MaxLen |-> 1]} :
       /\ mem = [id \in {1, 2} |-> IF id = 1 THEN vec ELSE <<>>]
       /\ \/ kind = "RO" /\ b = ROIobuf_from_vec(1, vec)
          \/ kind = "RW" /\ b = RWIobuf_from_vec(1, vec)
  /\ i_buf = NoView
  /\ o_buf = NoView
  /\ res = [op |-> "new", ok |-> TRUE, pos |-> 0, len |-> 0]
  /\ hist = [prev |-> "none", ok |-> TRUE, narrow |-> FALSE,
             narrow2 |-> FALSE]

NextNav ==
  \/ NSub \/ NSubWindow \/ NAdvance \/ NNarrow
  \/ NRewind \/ NReset \/ NFlipLo \/ NFlipHi

SpecNav == InitNav /\ [][NextNav]_vars

\* C16: from any reachable state, reset() followed by rewind() leaves
\* limits = window = (0, true_length), the state of a view newly
\* constructed over the same buffer.
C16_ResetRewindIsFresh ==
  [][(res.op = "reset" /\ res'.op = "rewind") =>
       /\ b' = Raw_new(b.buf, Len(mem'[b.buf]))
       /\ b' = RWIobuf_from_vec(b.buf, mem'[b.buf])]_vars

\* reset then rewind on a view whose limits had been narrowed.
C16_Witness ==
  /\ res.op = "rewind"
  /\ hist.prev = "reset"
  /\ hist.narrow2
  /\ b = Raw_new(1, MaxLen)

\* C17: narrow() called twice in a row leaves the limits and window the
\* first call left, and after narrow() the limits equal the window, which
\* narrow() does not move.
C17_NarrowIdempotent ==
  [][/\ (res.op = "narrow" /\ res'.op = "narrow") => b' = b
     /\ res'.op = "narrow" =>
          /\ b'.lo_min = b'.lo
          /\ b'.hi_max = b'.hi
          /\ b'.lo = b.lo
          /\ b'.hi = b.hi]_vars

\* A second narrow in a row, on a window inside the buffer.
C17_Witness ==
  /\ res.op = "narrow"
  /\ hist.prev = "narrow"
  /\ b.lo_min > 0
  /\ b.lo < b.hi

\* C19: a successful sub(pos, len) sets window and limits to
\* (lo+pos, lo+pos+len), and a rewind() that follows changes nothing; a
\* successful sub_window(pos, len) sets the window to that range and leaves
\* the limits, and a rewind() that follows sets the window to those limits.
C19_SubNarrowsSubWindowDoesNot ==
  [][/\ (res'.op = "sub" /\ res'.ok) =>
          /\ b'.lo = b.lo + res'.pos
          /\ b'.hi = b.lo + res'.pos + res'.len
          /\ b'.lo_min = b'.lo
          /\ b'.hi_max = b'.hi
     /\ (res.op = "sub" /\ res.ok /\ res'.op = "rewind") => b' = b
     /\ (res'.op = "sub_window" /\ res'.ok) =>
          /\ b'.lo = b.lo + res'.pos
          /\ b'.hi = b.lo + res'.pos + res'.len
          /\ b'.lo_min = b.lo_min
          /\ b'.hi_max = b.hi_max
     /\ (res.op = "sub_window" /\ res.ok /\ res'.op = "rewind") =>
          /\ b'.lo = b.lo_min
          /\ b'.hi = b.hi_max
          /\ b'.lo_min = b.lo_min
          /\ b'.hi_max = b.hi_max]_vars

\* A rewind after a successful sub of a view with full limits: the window
\* stays the one byte sub left.
C19_Witness ==
  /\ res.op = "rewind"
  /\ hist.prev = "sub"
  /\ hist.ok
  /\ ~hist.narrow2
  /\ b.lo_min = 1
  /\ b.lo = 1
  /\ b.hi = 2
  /\ b.hi_max = 2

\* C18: in every reachable state, a consume(dst) that succeeds returns the
\* bytes, leaves the buffer and leaves the view exactly as peek(0, dst)
\* followed by advance(n) does, and a fill(src) that succeeds as
\* poke(0, src) followed by advance(n): lo grows by n, hi and the limits
\* stay.
C18_ConsumeFillArePeekPokeThenAdvance ==
  /\ \A n \in Args :
       \A junk \in JunkFor(ReadCells(b, M, 0, n)) :
         LET c == IF RO THEN ROIobuf_consume(b, M, Zeros(n), junk)
                  ELSE RWIobuf_consume(b, M, Zeros(n), junk)
             p == IF RO THEN ROIobuf_peek(b, M, 0, Zeros(n), junk)
                  ELSE RWIobuf_peek(b, M, 0, Zeros(n), junk)
             a == IF RO THEN ROIobuf_advance(p.v, n)
                  ELSE RWIobuf_advance(p.v, n)
         IN c.ok =>
              /\ p.ok
              /\ a.ok
              /\ c.out = p.out
              /\ c.m = p.m
              /\ c.v = a.v
              /\ c.v = [b EXCEPT !.lo = b.lo + n]
  /\ ~RO =>
       \A src \in Srcs :
         LET f == RWIobuf_fill(b, M, src)
             p == RWIobuf_poke(b, M, 0, src)
             a == RWIobuf_advance(p.v, Len(src))
         IN f.ok =>
              /\ p.ok
              /\ a.ok
              /\ f.out = p.out
              /\ f.m = p.m
              /\ f.v = a.v
              /\ f.v = [b EXCEPT !.lo = b.lo + Len(src)]

\* A fill of two bytes has just succeeded on a window inside wider limits.
C18_Witness ==
  /\ res.op = "fill"
  /\ res.ok
  /\ b.lo - b.lo_min = 2
  /\ mem[b.buf][b.lo] = 2
  /\ mem[b.buf][b.lo - 1] = 1


---------------------------------------------------------------------------
(* The drain run: a ring is filled and popped at will, then the producer   *)
(* stops and the consumer runs the loop the documentation of pop_buf       *)
(* prescribes: while is_empty() is false, pop_buf() and consume the whole  *)
(* window of the view returned.  hist gains draining (the producer has     *)
(* stopped) and pops (the calls of pop_buf the loop has made).             *)

\* Calls of pop_buf the loop may make.
MaxDrainPops == 3

InitDrain ==
  \E cap \in 0..MaxCap :
    LET s == RingNew(cap)
    IN /\ mem = s.mem
       /\ i_buf = s.i_buf
       /\ o_buf = s.o_buf
       /\ res = s.res
       /\ hist = [cap |-> cap, pending |-> <<>>, unread |-> <<>>,
                  fresh |-> TRUE, offered |-> 0,
                  draining |-> FALSE, pops |-> 0]
       /\ b = NoView
       /\ kind = "RW"

DFill ==
  /\ ~hist.draining
  /\ \E src \in RingSrcs : RingFill(src, FALSE)

DPopAny ==
  /\ ~hist.draining
  /\ RingPop

DConsumeAny ==
  /\ ~hist.draining
  /\ \E n \in 0..((MaxCap \div 2) + 2) : RingConsume(n)

\* The producer stops; the loop starts.
DStop ==
  /\ ~hist.draining
  /\ hist' = [hist EXCEPT !.draining = TRUE]
  /\ res' = [op |-> "drain", ok |-> TRUE, swapped |-> FALSE, out |-> <<>>]
  /\ UNCHANGED <<mem, b, kind, i_buf, o_buf>>

\* while !ring.is_empty() { ring.pop_buf() ...
DPop ==
  /\ hist.draining
  /\ res.op \in {"drain", "consume"}
  /\ ~IORingbuf_is_empty(i_buf, o_buf)
  /\ hist.pops < MaxDrainPops
  /\ LET ring == IORingbuf_pop_buf(i_buf, o_buf, mem)
         empty == o_buf.lo = o_buf.hi
     IN /\ i_buf' = ring.i_buf
        /\ o_buf' = ring.o_buf
        /\ res' = [op |-> "pop_buf", ok |-> TRUE, swapped |-> empty,
                   out |-> <<>>]
        /\ hist' = [hist EXCEPT
                      !.pending = IF empty THEN <<>> ELSE @,
                      !.unread = IF empty THEN hist.pending ELSE @,
                      !.fresh = FALSE,
                      !.pops = @ + 1]
        /\ UNCHANGED <<mem, b, kind>>

\* ... .consume(dst) with dst as long as the window of the view returned }
DConsume ==
  /\ hist.draining
  /\ res.op = "pop_buf"
  /\ RingConsume(Raw_len(o_buf))

NextDrain == DFill \/ DPopAny \/ DConsumeAny \/ DStop \/ DPop \/ DConsume

\* The loop is sequential code: each of its two steps is taken when it is
\* the next one.
SpecDrain ==
  InitDrain /\ [][NextDrain]_vars /\ WF_vars(DPop) /\ WF_vars(DConsume)

\* C20: once nothing more is filled, the loop of pop_buf and whole-window
\* consumes reaches a state where is_empty() is true, and it calls pop_buf
\* at most twice on the way.
C20_DrainLoopEmptiesRing ==
  /\ [](hist.draining => hist.pops <= 2)
  /\ hist.draining ~> IORingbuf_is_empty(i_buf, o_buf)

\* The loop has emptied the first view returned, of two unread bytes, and
\* the ring is not empty: bytes are still pending in the input half.
C20_Witness ==
  /\ hist.draining
  /\ hist.pops = 1
  /\ res.op = "consume"
  /\ res.ok
  /\ Len(res.out) = 2
  /\ o_buf.lo = o_buf.hi
  /\ Len(hist.pending) > 0
  /\ ~IORingbuf_is_empty(i_buf, o_buf)


---------------------------------------------------------------------------
(* The unchecked operations of RWIobuf and its Iobuf implementation.  Each *)
(* forwards to the RawIobuf operation of the same name.  A call outside    *)
(* the window is undefined behaviour; check_range_fail is the guard the    *)
(* caller puts before a block of unchecked calls.                          *)

\* check_range_fail returns (TRUE) or fails the task (FALSE).
RWIobuf_check_range_fail(v, pos, len) == Raw_check_range(v, pos, len)

RWIobuf_unsafe_advance(v, len) == Raw_unsafe_advance(v, len)

\* unsafe_poke that counts pos from the lower limit.
RWIobuf_unsafe_poke_from_limit(v, m, pos, src) ==
  AccOk(v, Store(m, v.lo_min + pos, src), <<>>)

RWIobuf_unsafe_poke(v, m, pos, src) == Raw_unsafe_poke(v, m, pos, src)

RWIobuf_unsafe_poke_be(v, m, pos, w, val) == Raw_unsafe_poke_be(v, m, pos, w, val)

RWIobuf_unsafe_poke_le(v, m, pos, w, val) == Raw_unsafe_poke_le(v, m, pos, w, val)

RWIobuf_unsafe_fill(v, m, src) == Raw_unsafe_fill(v, m, src)

RWIobuf_unsafe_fill_be(v, m, w, val) == Raw_unsafe_fill_be(v, m, w, val)

RWIobuf_unsafe_fill_le(v, m, w, val) == Raw_unsafe_fill_le(v, m, w, val)

RWIobuf_unsafe_consume(v, m, dst, junk) == Raw_unsafe_consume(v, m, dst, junk)

RWIobuf_unsafe_consume_be(v, m, w, junk) == Raw_unsafe_consume_be(v, m, w, junk)

RWIobuf_unsafe_consume_le(v, m, w, junk) == Raw_unsafe_consume_le(v, m, w, junk)

---------------------------------------------------------------------------
(* The unchecked run: a view of RWIobuf::new(10) on which the caller makes *)
(* unchecked calls, each inside the window, and narrow and flip_lo.  res   *)
(* keeps the call made and the junk an undefined cell read as; hist counts *)
(* the calls (n) and follows the example of unsafe_poke (scen: the number  *)
(* of its calls made so far in order, -1 once the run left it).            *)

\* RWIobuf::new(10) of the examples.
UnsafeLen == 10

\* Calls made in one run.
MaxUnsafeOps == 6

\* let data = [ 1,2,3,4 ];
UnsafeData == <<1, 2, 3, 4>>

\* 0x0304u16
UnsafeValue == <<772>>

UCallOf(op, pos, w, src) == [op |-> op, pos |-> pos, w |-> w, src |-> src]

UnsafeOps ==
  {"unsafe_advance", "unsafe_poke", "unsafe_poke_be", "unsafe_poke_le",
   "unsafe_fill", "unsafe_fill_be", "unsafe_fill_le", "unsafe_consume",
   "unsafe_consume_be", "unsafe_consume_le"}

UnsafeReads == {"unsafe_consume", "unsafe_consume_be", "unsafe_consume_le"}

\* The unchecked calls the caller makes: w is the number of bytes touched.
UnsafeCalls ==
  {UCallOf("unsafe_advance", 0, w, <<>>) : w \in {1, 7}}
    \cup {UCallOf("unsafe_poke", pos, 4, UnsafeData) : pos \in {0, 3}}
    \cup {UCallOf(op, 1, 2, UnsafeValue) :
            op \in {"unsafe_poke_be", "unsafe_poke_le"}}
    \cup {UCallOf("unsafe_fill", 0, 4, UnsafeData)}
    \cup {UCallOf(op, 0, 2, UnsafeValue) :
            op \in {"unsafe_fill_be", "unsafe_fill_le"}}
    \cup {UCallOf("unsafe_consume", 0, 1, <<>>)}
    \cup {UCallOf(op, 0, 2, <<>>) :
            op \in {"unsafe_consume_be", "unsafe_consume_le"}}

\* unsafe_advance(1); narrow(); unsafe_poke(0, data); unsafe_poke(3, data);
\* unsafe_advance(7); flip_lo()
UnsafeExample ==
  <<UCallOf("unsafe_advance", 0, 1, <<>>),
    UCallOf("narrow", 0, 0, <<>>),
    UCallOf("unsafe_poke", 0, 4, UnsafeData),
    UCallOf("unsafe_poke", 3, 4, UnsafeData),
    UCallOf("unsafe_advance", 0, 7, <<>>),
    UCallOf("flip_lo", 0, 0, <<>>)>>

\* The view, buffer and value the unchecked call c leaves.
UnsafeTwin(c, v, m, junk) ==
  CASE c.op = "unsafe_advance" ->
         AccOk(RWIobuf_unsafe_advance(v, c.w), m, <<>>)
    [] c.op = "unsafe_poke" -> RWIobuf_unsafe_poke(v, m, c.pos, c.src)
    [] c.op = "unsafe_poke_be" -> RWIobuf_unsafe_poke_be(v, m, c.pos, c.w, c.src)
    [] c.op = "unsafe_poke_le" -> RWIobuf_unsafe_poke_le(v, m, c.pos, c.w, c.src)
    [] c.op = "unsafe_fill" -> RWIobuf_unsafe_fill(v, m, c.src)
    [] c.op = "unsafe_fill_be" -> RWIobuf_unsafe_fill_be(v, m, c.w, c.src)
    [] c.op = "unsafe_fill_le" -> RWIobuf_unsafe_fill_le(v, m, c.w, c.src)
    [] c.op = "unsafe_consume" -> RWIobuf_unsafe_consume(v, m, Zeros(c.w), junk)
    [] c.op = "unsafe_consume_be" -> RWIobuf_unsafe_consume_be(v, m, c.w, junk)
    [] c.op = "unsafe_consume_le" -> RWIobuf_unsafe_consume_le(v, m, c.w, junk)

\* What the checked operation of the same name gives for the call c.
CheckedTwin(c, v, m, junk) ==
  CASE c.op = "unsafe_advance" ->
         LET r == RWIobuf_advance(v, c.w)
         IN [ok |-> r.ok, v |-> r.v, m |-> m, out |-> <<>>]
    [] c.op = "unsafe_poke" -> RWIobuf_poke(v, m, c.pos, c.src)
    [] c.op = "unsafe_poke_be" -> RWIobuf_poke_be(v, m, c.pos, c.w, c.src)
    [] c.op = "unsafe_poke_le" -> RWIobuf_poke_le(v, m, c.pos, c.w, c.src)
    [] c.op = "unsafe_fill" -> RWIobuf_fill(v, m, c.src)
    [] c.op = "unsafe_fill_be" -> RWIobuf_fill_be(v, m, c.w, c.src)
    [] c.op = "unsafe_fill_le" -> RWIobuf_fill_le(v, m, c.w, c.src)
    [] c.op = "unsafe_consume" -> RWIobuf_consume(v, m, Zeros(c.w), junk)
    [] c.op = "unsafe_consume_be" -> RWIobuf_consume_be(v, m, c.w, junk)
    [] c.op = "unsafe_consume_le" -> RWIobuf_consume_le(v, m, c.w, junk)

UStep(c, junk, r) ==
  /\ hist.n < MaxUnsafeOps
  /\ b' = r.v
  /\ mem' = [mem EXCEPT ![b.buf] = r.m]
  /\ res' = [op |-> c.op, ok |-> TRUE, call |-> c, junk |-> junk,
             out |-> r.out]
  /\ hist' = [n |-> hist.n + 1,
              scen |-> IF hist.scen \in 0..5 /\ c = UnsafeExample[hist.scen + 1]
                       THEN hist.scen + 1 ELSE -1]
  /\ UNCHANGED <<kind, i_buf, o_buf>>

\* An unchecked call whose range check_range_fail lets through.
UCall ==
  \E c \in UnsafeCalls :
    /\ RWIobuf_check_range_fail(b, c.pos, c.w)
    /\ \E junk \in JunkFor(IF c.op \in UnsafeReads
                           THEN ReadCells(b, M, 0, c.w) ELSE <<>>) :
         UStep(c, junk, UnsafeTwin(c, b, M, junk))

UNarrow ==
  UStep(UCallOf("narrow", 0, 0, <<>>), <<>>, AccOk(RWIobuf_narrow(b), M, <<>>))

UFlipLo ==
  UStep(UCallOf("flip_lo", 0, 0, <<>>), <<>>, AccOk(RWIobuf_flip_lo(b), M, <<>>))

InitUnsafe ==
  /\ mem = [id \in {1, 2} |-> IF id = 1 THEN Undefs(UnsafeLen) ELSE <<>>]
  /\ kind = "RW"
  /\ b = RWIobuf_new(1, UnsafeLen)
  /\ i_buf = NoView
  /\ o_buf = NoView
  /\ res = [op |-> "new", ok |-> TRUE, call |-> UCallOf("new", 0, 0, <<>>),
            junk |-> <<>>, out |-> <<>>]
  /\ hist = [n |-> 0, scen |-> 0]

NextUnsafe == UCall \/ UNarrow \/ UFlipLo

SpecUnsafe == InitUnsafe /\ [][NextUnsafe]_vars

\* C21: an unchecked call whose range lies in the window leaves the view,
\* the bytes and the value returned as the checked operation of the same
\* name, which succeeds, leaves them; and the example of unsafe_poke
\* (unsafe_advance(1), narrow(), two unsafe_pokes, unsafe_advance(7),
\* flip_lo()) ends with the 7-byte window 1,2,3,1,2,3,4.
C21_UncheckedAsChecked ==
  [][/\ res'.op \in UnsafeOps =>
          LET t == CheckedTwin(res'.call, b, M, res'.junk)
          IN /\ t.ok
             /\ b' = t.v
             /\ mem'[b.buf] = t.m
             /\ mem'[2] = mem[2]
             /\ res'.out = t.out
     /\ hist'.scen = 6 =>
          /\ Raw_len(b') = 7
          /\ WindowBytes(b', mem'[b'.buf]) = <<1, 2, 3, 1, 2, 3, 4>>]_vars

\* The example of unsafe_poke ran to its end.
C21_Witness ==
  /\ hist.scen = 6
  /\ res.op = "flip_lo"
  /\ b = [buf |-> 1, lo_min |-> 1, lo |-> 1, hi |-> 8, hi_max |-> 10]


---------------------------------------------------------------------------
(* The resize run: a view of RWIobuf::new(10) that is poked, advanced and  *)
(* resized.  res keeps the arguments of the call; hist counts the calls    *)
(* (n), keeps whether a resize made the window longer (grew) and follows   *)
(* the example of poke from a view whose window is the whole buffer        *)
(* (scen: the number of its calls made so far in order, -1 outside it).    *)

\* RWIobuf::new(10) of the example of poke.
ResizeRunLen == 10

\* Calls made in one run.
MaxResizeOps == 6

\* let data = [ 1,2,3,4 ];
ResizeData == <<1, 2, 3, 4>>

RCallOf(op, pos, len) == [op |-> op, pos |-> pos, len |-> len]

\* poke(0, data); poke(3, data); resize(7); poke(4, data)
ResizeExample ==
  <<RCallOf("poke", 0, 4), RCallOf("poke", 3, 4), RCallOf("resize", 0, 7),
    RCallOf("poke", 4, 4)>>

ZStep(c, r, m2) ==
  /\ hist.n < MaxResizeOps
  /\ b' = r.v
  /\ mem' = [mem EXCEPT ![b.buf] = m2]
  /\ res' = [op |-> c.op, ok |-> r.ok, pos |-> c.pos, len |-> c.len]
  /\ hist' = [n |-> hist.n + 1,
              grew |-> hist.grew \/ (c.op = "resize" /\ r.ok /\ r.v.hi > b.hi),
              scen |-> IF /\ hist.scen \in 1..3
                          /\ c = ResizeExample[hist.scen + 1]
                          /\ (r.ok \/ hist.scen = 3)
                       THEN hist.scen + 1
                       ELSE IF /\ c = ResizeExample[1]
                               /\ b = RWIobuf_new(1, ResizeRunLen)
                               /\ r.ok
                            THEN 1 ELSE -1]
  /\ UNCHANGED <<kind, i_buf, o_buf>>

ZPoke ==
  \E pos \in {0, 3, 4} :
    LET r == RWIobuf_poke(b, M, pos, ResizeData)
    IN ZStep(RCallOf("poke", pos, Len(ResizeData)), r, r.m)

ZResize ==
  \E len \in {7, ResizeRunLen - 1, ResizeRunLen, ResizeRunLen + 1} :
    ZStep(RCallOf("resize", 0, len), RWIobuf_resize(b, len), M)

ZAdvance ==
  ZStep(RCallOf("advance", 0, 1), RWIobuf_advance(b, 1), M)

InitResize ==
  /\ mem = [id \in {1, 2} |-> IF id = 1 THEN Undefs(ResizeRunLen) ELSE <<>>]
  /\ kind = "RW"
  /\ b = RWIobuf_new(1, ResizeRunLen)
  /\ i_buf = NoView
  /\ o_buf = NoView
  /\ res = [op |-> "new", ok |-> TRUE, pos |-> 0, len |-> 0]
  /\ hist = [n |-> 0, grew |-> FALSE, scen |-> 0]

NextResize == ZPoke \/ ZResize \/ ZAdvance

SpecResize == InitResize /\ [][NextResize]_vars

\* C22: resize(len) succeeds exactly when lo + len <= hi_max; it then sets
\* hi to lo + len and leaves lo, the limits and the bytes alone; otherwise
\* it changes nothing.  A poke that ends past hi fails and writes nothing,
\* as poke(4, 4 bytes) does after resize(7) of a 10-byte view, whose
\* window then holds 1,2,3,1,2,3,4.
C22_ResizeWithinUpperLimit ==
  [][/\ res'.op = "resize" =>
          /\ res'.ok = (b.lo + res'.len <= b.hi_max)
          /\ b' = IF res'.ok THEN [b EXCEPT !.hi = b.lo + res'.len] ELSE b
          /\ mem' = mem
     /\ (res'.op = "poke" /\ res'.pos + res'.len > b.hi - b.lo) =>
          /\ ~res'.ok
          /\ b' = b
          /\ mem' = mem
     /\ hist'.scen = 4 =>
          /\ ~res'.ok
          /\ Raw_len(b') = 7
          /\ WindowBytes(b', mem'[b'.buf]) = <<1, 2, 3, 1, 2, 3, 4>>]_vars

\* After a resize made the window longer, up to the upper limit, the
\* example of poke ran to its refused poke(4, data).
C22_Witness ==
  /\ hist.grew
  /\ hist.scen = 4
  /\ res.op = "poke"
  /\ ~res.ok
  /\ b.hi = 7


\* C23: the input view and the output view of a ring are always views of
\* two different buffers, and a pop_buf step either leaves both views as
\* they were or has done all of the transition: the output view is the old
\* input view flipped, the input view is the old output view reset to its
\* whole buffer.
C23_PopBufIsAllOrNothing ==
  /\ [](i_buf.buf # o_buf.buf /\ {i_buf.buf, o_buf.buf} = {1, 2})
  /\ [][res'.op = "pop_buf" =>
          \/ /\ i_buf' = i_buf
             /\ o_buf' = o_buf
             /\ ~res'.swapped
          \/ /\ o_buf' = [i_buf EXCEPT !.lo = i_buf.lo_min, !.hi = i_buf.lo]
             /\ i_buf' = [buf |-> o_buf.buf, lo_min |-> 0, lo |-> 0,
                          hi |-> Len(mem[o_buf.buf]),
                          hi_max |-> Len(mem[o_buf.buf])]
             /\ mem' = mem
             /\ res'.swapped]_vars

\* pop_buf has just exchanged the halves: the bytes filled are in the output
\* window, on the buffer the input view had, and the input view has the
\* other one.
C23_Witness ==
  /\ res.op = "pop_buf"
  /\ res.swapped
  /\ o_buf.buf = 1
  /\ i_buf.buf = 2
  /\ o_buf.hi - o_buf.lo = 2
  /\ i_buf.hi - i_buf.lo = Len(mem[2])


---------------------------------------------------------------------------
(* The queue run: a ring into which at most MaxFifoBytes bytes are filled. *)
(* hist keeps every byte a fill wrote (filled) and every byte a consume    *)
(* returned (consumed), in order, and whether a fill succeeded while the   *)
(* output window still held unread bytes (overlap).                        *)

\* Bytes filled in one run.
MaxFifoBytes == 4

\* The bytes of the output window, oldest first.
RingUnread(ob, m) == WindowBytes(ob, m[ob.buf])

\* The bytes written into the input half since the last swap.
RingPending(ib, m) == Slice(m[ib.buf], ib.lo_min, ib.lo - ib.lo_min)

\* ring.push_buf().fill(src)
FFill ==
  \E src \in RingSrcs :
    /\ Len(hist.filled) + Len(src) <= MaxFifoBytes
    /\ LET r == RWIobuf_fill(IORingbuf_push_buf(i_buf), mem[i_buf.buf], src)
       IN /\ i_buf' = r.v
          /\ mem' = [mem EXCEPT ![i_buf.buf] = r.m]
          /\ res' = [op |-> "fill", ok |-> r.ok, swapped |-> FALSE,
                     out |-> <<>>]
          /\ hist' = [hist EXCEPT
                        !.filled = IF r.ok THEN @ \o src ELSE @,
                        !.overlap = @ \/ (r.ok /\ Len(src) > 0
                                           /\ ~RWIobuf_is_empty(o_buf))]
          /\ UNCHANGED <<b, kind, o_buf>>

\* ring.pop_buf()
FPop ==
  LET ring == IORingbuf_pop_buf(i_buf, o_buf, mem)
  IN /\ i_buf' = ring.i_buf
     /\ o_buf' = ring.o_buf
     /\ res' = [op |-> "pop_buf", ok |-> TRUE,
                swapped |-> ring.o_buf # o_buf, out |-> <<>>]
     /\ UNCHANGED <<mem, b, kind, hist>>

\* consume(dst) on the view pop_buf returned.
FConsume ==
  /\ res.op \in {"pop_buf", "consume"}
  /\ \E n \in 0..((MaxCap \div 2) + 2) :
       \E junk \in JunkFor(ReadCells(o_buf, mem[o_buf.buf], 0, n)) :
         LET r == ROIobuf_consume(o_buf, mem[o_buf.buf], Zeros(n), junk)
         IN /\ o_buf' = r.v
            /\ mem' = [mem EXCEPT ![o_buf.buf] = r.m]
            /\ res' = [op |-> "consume", ok |-> r.ok, swapped |-> FALSE,
                       out |-> r.out]
            /\ hist' = [hist EXCEPT
                          !.consumed = IF r.ok THEN @ \o r.out ELSE @]
            /\ UNCHANGED <<b, kind, i_buf>>

InitFifo ==
  \E cap \in 0..MaxCap :
    LET s == RingNew(cap)
    IN /\ mem = s.mem
       /\ i_buf = s.i_buf
       /\ o_buf = s.o_buf
       /\ res = s.res
       /\ hist = [cap |-> cap, filled |-> <<>>, consumed |-> <<>>,
                  overlap |-> FALSE]
       /\ b = NoView
       /\ kind = "RW"

NextFifo == FFill \/ FPop \/ FConsume

SpecFifo == InitFifo /\ [][NextFifo]_vars

\* C24: in every state the bytes filled so far are the bytes consumed so
\* far, followed by the bytes of the output window, followed by the bytes
\* written into the input half since the last swap: the bytes consumed are
\* a prefix of the bytes filled, in order, without loss or repetition.
C24_FifoAcrossSwaps ==
  /\ hist.filled =
       hist.consumed \o RingUnread(o_buf, mem) \o RingPending(i_buf, mem)
  /\ Len(hist.consumed) <= Len(hist.filled)
  /\ hist.consumed = SubSeq(hist.filled, 1, Len(hist.consumed))

\* Four bytes went through a ring of capacity 4, some of them filled while
\* the output window was partly unread, and came out in order.
C24_Witness ==
  /\ hist.cap = 4
  /\ hist.overlap
  /\ hist.filled = <<1, 2, 2, 1>>
  /\ hist.consumed = hist.filled
  /\ res.op = "consume"


\* C25: a ring made with a capacity of two or more never reports is_full()
\* and is_empty() together.
C25_NotFullAndEmpty ==
  hist.cap >= 2 => ~(IORingbuf_is_full(i_buf) /\ IORingbuf_is_empty(i_buf, o_buf))

\* The smallest such ring after one byte filled its input half: full, not
\* empty.
C25_Witness ==
  /\ hist.cap = 2
  /\ res.op = "fill"
  /\ res.ok
  /\ hist.pending = <<1>>
  /\ IORingbuf_is_full(i_buf)
  /\ ~IORingbuf_is_empty(i_buf, o_buf)


\* C26: a pop_buf called while is_empty() is true returns a view with an
\* empty window and leaves is_empty() true, so that any number of such
\* calls in a row hands no byte to the consumer.
C26_PopOnEmptyStaysEmpty ==
  [][(IORingbuf_is_empty(i_buf, o_buf) /\ res'.op = "pop_buf") =>
       /\ Raw_len(o_buf') = 0
       /\ IORingbuf_is_empty(i_buf', o_buf')
       /\ \A n \in 1..MaxCap :
            ~ROIobuf_consume(o_buf', mem'[o_buf'.buf], Zeros(n), Zeros(n)).ok]_vars

\* pop_buf on an empty ring has just returned an empty window on a buffer
\* that still holds a byte consumed earlier.
C26_Witness ==
  /\ res.op = "pop_buf"
  /\ res.swapped
  /\ ~hist.fresh
  /\ IORingbuf_is_empty(i_buf, o_buf)
  /\ Raw_len(o_buf) = 0
  /\ Len(mem[o_buf.buf]) > 0
  /\ mem[o_buf.buf][1] # Undef


\* C27: the bytes filled and not yet consumed, that is the bytes of the
\* output window plus the bytes written into the input half since the last
\* swap, are never more than the capacity given to new.
C27_HeldBytesWithinCapacity ==
  /\ Raw_len(o_buf) + (i_buf.lo - i_buf.lo_min) <= hist.cap
  /\ Len(hist.unread) = Raw_len(o_buf)
  /\ Len(hist.pending) = i_buf.lo - i_buf.lo_min
  /\ Raw_cap(i_buf) + Raw_cap(o_buf) = hist.cap

\* A ring of capacity 5 holds five bytes: two unread, three pending.
C27_Witness ==
  /\ hist.cap = 5
  /\ res.op = "fill"
  /\ res.ok
  /\ Len(hist.unread) = 2
  /\ Len(hist.pending) = 3
  /\ Raw_len(o_buf) = 2

====
